---- MODULE Spec2Model ----
(***************************************************************************)
(* Model of the list-query pipeline of sake-hack-backend:                  *)
(*   presentation.SakeServerImpl.ListSakes  (validation, defaults,        *)
(*       response / error rendering)                                      *)
(*   usecase.ListSakesUsecase.Execute       (clamping, delegation)        *)
(*   repository.sakeRepositoryImpl.List     (count, page, hydration)      *)
(* over a relational store that other clients may write concurrently.     *)
(*                                                                         *)
(* An optional value (a Go pointer) is a set with at most one element:     *)
(* {} is nil, {v} is a pointer to v.  A Go slice is a record               *)
(* [isNil, elems].  Message literals of the source are Japanese; they are  *)
(* written here as ASCII tokens.                                           *)
(***************************************************************************)
EXTENDS Integers, Sequences, FiniteSets, TLC

\* ------------------------------------------------------------------ bounds
MaxSakeId == 2
MaxTypeId == 2
MaxBreweryId == 2
MaxDrinkStyleId == 2
MaxOffsetProbe == 1
MaxOtherHandlers == 1
MaxHealthChecks == 2

\* -------------------------------------------------------- program constants
MinOffset == 0
MinLimit == 1
MaxLimit == 100
DefaultLimit == 20
DefaultOffset == 0
MinId == 1
StatusOK == 200
StatusBadRequest == 400
StatusUnauthorized == 401
StatusForbidden == 403
StatusNotFound == 404
StatusConflict == 409
StatusInternalServerError == 500
StatusServiceUnavailable == 503

ErrCodeBadRequest == "BAD_REQUEST"
ErrCodeNotFound == "NOT_FOUND"
ErrCodeUnauthorized == "UNAUTHORIZED"
ErrCodeForbidden == "FORBIDDEN"
ErrCodeConflict == "CONFLICT"
ErrCodeInternalError == "INTERNAL_ERROR"
ErrCodeDatabaseError == "DATABASE_ERROR"
ErrCodeValidationError == "VALIDATION_ERROR"
ErrCodeGroupAccessDenied == "GROUP_ACCESS_DENIED"

ErrCodes ==
    { ErrCodeBadRequest, ErrCodeNotFound, ErrCodeUnauthorized, ErrCodeForbidden,
      ErrCodeConflict, ErrCodeInternalError, ErrCodeDatabaseError,
      ErrCodeValidationError, ErrCodeGroupAccessDenied }

\* ------------------------------------------------------------ Go data shapes
Opt(S) == {{}} \cup {{v} : v \in S}

\* The value an optional value that is set holds.
TheOne(S) == CHOOSE v \in S : TRUE

NilSlice == [isNil |-> TRUE, elems |-> << >>]
Slice(s) == [isNil |-> FALSE, elems |-> s]

Min(a, b) == IF a < b THEN a ELSE b

\* ------------------------------------------------------------------- errors
NoError == [kind |-> "nil"]

PlainError(text) == [kind |-> "plain", text |-> text]

\* fmt.Errorf("...: %w", err)
WrapError(err) == [kind |-> "wrap", Err |-> err]

ErrNoRows == PlainError("no rows in result set")

AppError(code, message, status, err) ==
    [kind |-> "AppError", Code |-> code, Message |-> message, Status |-> status, Err |-> err]

BadRequestError(message) == AppError(ErrCodeBadRequest, message, StatusBadRequest, NoError)
NotFoundError(message) == AppError(ErrCodeNotFound, message, StatusNotFound, NoError)
UnauthorizedError(message) == AppError(ErrCodeUnauthorized, message, StatusUnauthorized, NoError)
ForbiddenError(message) == AppError(ErrCodeForbidden, message, StatusForbidden, NoError)
ConflictError(message) == AppError(ErrCodeConflict, message, StatusConflict, NoError)
InternalServerError(message) ==
    AppError(ErrCodeInternalError, message, StatusInternalServerError, NoError)
GroupAccessDeniedError(message) ==
    AppError(ErrCodeGroupAccessDenied, message, StatusForbidden, NoError)

DatabaseErrorDropCause(message, err) ==
    AppError(ErrCodeDatabaseError, message, StatusInternalServerError, NoError)

DatabaseError(message, err) ==
    AppError(ErrCodeDatabaseError, message, StatusInternalServerError, err)

\* Fields is a Go map field -> message, kept as a set of <<field, message>>
\* pairs with at most one pair per field.
NewValidationError(message) ==
    [kind |-> "ValidationError",
     AppError |-> AppError(ErrCodeValidationError, message, StatusBadRequest, NoError),
     Fields |-> {}]

AddField(e, field, message) ==
    [e EXCEPT !.Fields = {p \in e.Fields : p[1] # field} \cup {<<field, message>>}]

HasErrors(e) == Cardinality(e.Fields) > 0

\* (*AppError).Unwrap, promoted to *ValidationError through the embedded
\* *AppError; the %w wrapper's Unwrap; a plain error has none.
Unwrap(e) ==
    CASE e.kind = "AppError" -> e.Err
      [] e.kind = "ValidationError" -> e.AppError.Err
      [] e.kind = "wrap" -> e.Err
      [] OTHER -> NoError

\* errors.Is(err, target)
RECURSIVE ErrorsIs(_, _)
ErrorsIs(err, target) ==
    IF err = NoError THEN FALSE
    ELSE IF err = target THEN TRUE
    ELSE ErrorsIs(Unwrap(err), target)

\* apperror.As: the first *AppError of the chain, or nil.  A *ValidationError
\* is not assignable to *AppError, so the walk continues through its Unwrap.
RECURSIVE As(_)
As(err) ==
    IF err = NoError THEN NoError
    ELSE IF err.kind = "AppError" THEN err
    ELSE As(Unwrap(err))

\* ------------------------------------------------------------ presentation
\* validator.Var(v, "min=m") on an int32: nil (TRUE here) iff v >= m.
ValidateVarMin(v, min) == v >= min

\* validator.Var(v, "min=m,max=n") on an int32: nil (TRUE here) iff m <= v <= n.
ValidateVarMinMax(v, min, max) == v >= min /\ v <= max

\* One nil-guarded check of validateListSakesParams: a present value that
\* fails its rule (failed) adds the field, anything else leaves verr alone.
CheckField(verr, failed, field, message) ==
    IF failed THEN AddField(verr, field, message) ELSE verr

OffsetRule(v) == ValidateVarMin(v, MinOffset)
TypeIdRule(v) == ValidateVarMin(v, MinId)
BreweryIdRule(v) == ValidateVarMin(v, MinId)

LimitRuleMinOnly(v) == ValidateVarMin(v, MinLimit)

LimitRule(v) == ValidateVarMinMax(v, MinLimit, MaxLimit)

\* validateListSakesParams: the *ValidationError when HasErrors, nil otherwise.
validateListSakesParamsShortCircuit(params) ==
    LET v0 == NewValidationError("invalid request parameters")
        v1 == CheckField(v0, \E v \in params.Offset : ~OffsetRule(v), "offset", "offset must be 0 or more")
        v2 == IF HasErrors(v1) THEN v1
              ELSE CheckField(v1, \E v \in params.Limit : ~LimitRule(v), "limit",
                              "limit must be between 1 and 100")
        v3 == IF HasErrors(v2) THEN v2
              ELSE CheckField(v2, \E v \in params.TypeId : ~TypeIdRule(v), "type_id",
                              "type id must be 1 or more")
        verr == IF HasErrors(v3) THEN v3
                ELSE CheckField(v3, \E v \in params.BreweryId : ~BreweryIdRule(v), "brewery_id",
                                "brewery id must be 1 or more")
    IN  IF HasErrors(verr) THEN verr ELSE NoError

validateListSakesParams(params) ==
    LET v0 == NewValidationError("invalid request parameters")
        v1 == CheckField(v0, \E v \in params.Offset : ~OffsetRule(v), "offset", "offset must be 0 or more")
        v2 == CheckField(v1, \E v \in params.Limit : ~LimitRule(v), "limit", "limit must be between 1 and 100")
        v3 == CheckField(v2, \E v \in params.TypeId : ~TypeIdRule(v), "type_id", "type id must be 1 or more")
        verr == CheckField(v3, \E v \in params.BreweryId : ~BreweryIdRule(v), "brewery_id",
                           "brewery id must be 1 or more")
    IN  IF HasErrors(verr) THEN verr ELSE NoError

\* generated.APIError and generated.ErrorResponse.  A message is a sequence
\* of the string pieces the code concatenates.
APIError(code, message) == [Code |-> code, Message |-> message]

ErrorResponse(status, errors) ==
    [status |-> status, dataNull |-> TRUE, data |-> << >>,
     metaNull |-> TRUE, meta |-> [Total |-> 0, Offset |-> 0, Limit |-> 0],
     errorsNull |-> FALSE, errors |-> errors]

\* The orders in which a range over a Go map may visit its entries.
MapOrders(S) ==
    {s \in [1..Cardinality(S) -> S] : \A i, j \in 1..Cardinality(S) : i # j => s[i] # s[j]}

\* handleError: the set of responses it can write for err (one per visiting
\* order of valErr.Fields; a single response for every other error).
handleErrorEchoesCause(err) ==
    IF err.kind = "ValidationError"
    THEN {ErrorResponse(err.AppError.Status,
                        [i \in DOMAIN ord |->
                            APIError(err.AppError.Code, <<ord[i][1], ": ", ord[i][2]>>)])
            : ord \in MapOrders(err.Fields)}
    ELSE IF As(err) # NoError
    THEN {ErrorResponse(As(err).Status,
                        <<APIError(As(err).Code,
                                   IF As(err).Err.kind = "plain"
                                   THEN <<As(err).Message, ": ", As(err).Err.text>>
                                   ELSE <<As(err).Message>>)>>)}
    ELSE {ErrorResponse(StatusInternalServerError,
                        <<APIError(ErrCodeInternalError, <<"internal error occurred">>)>>)}

handleErrorNotFoundAs500(err) ==
    IF err.kind = "ValidationError"
    THEN {ErrorResponse(err.AppError.Status,
                        [i \in DOMAIN ord |->
                            APIError(err.AppError.Code, <<ord[i][1], ": ", ord[i][2]>>)])
            : ord \in MapOrders(err.Fields)}
    ELSE IF As(err) # NoError
    THEN {ErrorResponse(IF As(err).Status = StatusNotFound
                        THEN StatusInternalServerError ELSE As(err).Status,
                        <<APIError(As(err).Code, <<As(err).Message>>)>>)}
    ELSE {ErrorResponse(StatusInternalServerError,
                        <<APIError(ErrCodeInternalError, <<"internal error occurred">>)>>)}

handleError(err) ==
    IF err.kind = "ValidationError"
    THEN {ErrorResponse(err.AppError.Status,
                        [i \in DOMAIN ord |->
                            APIError(err.AppError.Code, <<ord[i][1], ": ", ord[i][2]>>)])
            : ord \in MapOrders(err.Fields)}
    ELSE IF As(err) # NoError
    THEN {ErrorResponse(As(err).Status, <<APIError(As(err).Code, <<As(err).Message>>)>>)}
    ELSE {ErrorResponse(StatusInternalServerError,
                        <<APIError(ErrCodeInternalError, <<"internal error occurred">>)>>)}

\* toSakeResponse
toSakeResponseLosesMemo(sake) ==
    [Id |-> sake.ID,
     Type |-> [Id |-> sake.Type.ID, Name |-> sake.Type.Name],
     Brewery |-> [Id |-> sake.Brewery.ID,
                  Name |-> sake.Brewery.Name,
                  OriginCountry |-> sake.Brewery.OriginCountry,
                  OriginRegion |-> sake.Brewery.OriginRegion,
                  Latitude |-> sake.Brewery.Latitude,
                  Longitude |-> sake.Brewery.Longitude],
     Name |-> sake.Name,
     Abv |-> sake.ABV,
     TasteNotes |-> sake.TasteNotes,
     Memo |-> {},
     DrinkStyles |-> [i \in DOMAIN sake.DrinkStyles |->
                         [Id |-> sake.DrinkStyles[i].ID,
                          Name |-> sake.DrinkStyles[i].Name,
                          Description |-> sake.DrinkStyles[i].Description]],
     CreatedAt |-> sake.CreatedAt,
     UpdatedAt |-> sake.UpdatedAt]

toSakeResponse(sake) ==
    [Id |-> sake.ID,
     Type |-> [Id |-> sake.Type.ID, Name |-> sake.Type.Name],
     Brewery |-> [Id |-> sake.Brewery.ID,
                  Name |-> sake.Brewery.Name,
                  OriginCountry |-> sake.Brewery.OriginCountry,
                  OriginRegion |-> sake.Brewery.OriginRegion,
                  Latitude |-> sake.Brewery.Latitude,
                  Longitude |-> sake.Brewery.Longitude],
     Name |-> sake.Name,
     Abv |-> sake.ABV,
     TasteNotes |-> sake.TasteNotes,
     Memo |-> sake.Memo,
     DrinkStyles |-> [i \in DOMAIN sake.DrinkStyles |->
                         [Id |-> sake.DrinkStyles[i].ID,
                          Name |-> sake.DrinkStyles[i].Name,
                          Description |-> sake.DrinkStyles[i].Description]],
     CreatedAt |-> sake.CreatedAt,
     UpdatedAt |-> sake.UpdatedAt]

\* toListSakesResponse, written with http.StatusOK
toListSakesResponseNilForNil(output) ==
    [status |-> StatusOK, dataNull |-> output.Sakes.isNil,
     data |-> [i \in DOMAIN output.Sakes.elems |-> toSakeResponse(output.Sakes.elems[i])],
     metaNull |-> FALSE,
     meta |-> [Total |-> output.Pagination.Total,
               Offset |-> output.Pagination.Offset,
               Limit |-> output.Pagination.Limit],
     errorsNull |-> TRUE, errors |-> << >>]

toListSakesResponse(output) ==
    [status |-> StatusOK, dataNull |-> FALSE,
     data |-> [i \in DOMAIN output.Sakes.elems |-> toSakeResponse(output.Sakes.elems[i])],
     metaNull |-> FALSE,
     meta |-> [Total |-> output.Pagination.Total,
               Offset |-> output.Pagination.Offset,
               Limit |-> output.Pagination.Limit],
     errorsNull |-> TRUE, errors |-> << >>]

\* The defaults block of SakeServerImpl.ListSakes: the ListSakesInput built
\* from validated params.
HandlerInputNoDefaults(params) ==
    [TypeID |-> params.TypeId,
     BreweryID |-> params.BreweryId,
     Offset |-> IF params.Offset # {} THEN CHOOSE v \in params.Offset : TRUE ELSE 0,
     Limit |-> IF params.Limit # {} THEN CHOOSE v \in params.Limit : TRUE ELSE 0]

HandlerInputDropsBrewery(params) ==
    [TypeID |-> params.TypeId,
     BreweryID |-> {},
     Offset |-> IF params.Offset # {} THEN CHOOSE v \in params.Offset : TRUE ELSE DefaultOffset,
     Limit |-> IF params.Limit # {} THEN CHOOSE v \in params.Limit : TRUE ELSE DefaultLimit]

HandlerInput(params) ==
    [TypeID |-> params.TypeId,
     BreweryID |-> params.BreweryId,
     Offset |-> IF params.Offset # {} THEN CHOOSE v \in params.Offset : TRUE ELSE DefaultOffset,
     Limit |-> IF params.Limit # {} THEN CHOOSE v \in params.Limit : TRUE ELSE DefaultLimit]

\* ----------------------------------------------------------------- use case
\* The clamping block of ListSakesUsecase.Execute: the ListSakesFilter handed
\* to the repository.
ClampLimitToNearest(input) ==
    [TypeID |-> input.TypeID,
     BreweryID |-> input.BreweryID,
     Offset |-> IF input.Offset < MinOffset THEN MinOffset ELSE input.Offset,
     Limit |-> IF input.Limit < MinLimit THEN MinLimit
               ELSE IF input.Limit > MaxLimit THEN MaxLimit ELSE input.Limit]

ClampOffsetOnlyBelowMinusOne(input) ==
    [TypeID |-> input.TypeID,
     BreweryID |-> input.BreweryID,
     Offset |-> IF input.Offset < MinOffset - 1 THEN MinOffset ELSE input.Offset,
     Limit |-> IF input.Limit < MinLimit \/ input.Limit > MaxLimit
               THEN DefaultLimit ELSE input.Limit]

ExecuteFilter(input) ==
    [TypeID |-> input.TypeID,
     BreweryID |-> input.BreweryID,
     Offset |-> IF input.Offset < MinOffset THEN MinOffset ELSE input.Offset,
     Limit |-> IF input.Limit < MinLimit \/ input.Limit > MaxLimit
               THEN DefaultLimit ELSE input.Limit]

\* -------------------------------------------------------------------- store
SakeIds == 1..MaxSakeId
SakeTypeIds == 1..MaxTypeId
BreweryIds == 1..MaxBreweryId
DrinkStyleIds == 1..MaxDrinkStyleId

\* created_at of the sake row with a given id: ids 1 and 2 share a timestamp.
CreatedAt(id) == (id + 1) \div 2

\* Drink styles a client attaches to the sake it inserts: none for odd ids,
\* all of the master table for even ids.
DrinkStylesOf(id) == IF id % 2 = 1 THEN {} ELSE DrinkStyleIds

\* The rows clients insert are drawn from a fixed universe, one per id: the
\* type and the brewery of the sake with a given id.
TypeOf(id) == ((id - 1) % MaxTypeId) + 1
BreweryOf(id) == ((id - 1) % MaxBreweryId) + 1

\* The other columns of the rows of the universe. A text is a tuple naming
\* the column and the row; abv NUMERIC(4, 2) is a pgtype.Numeric, kept as its
\* validity and its value in hundredths; an optional column (origin_region,
\* position, memo, description) is set for some rows and NULL for others.
SakeTypeRow(id) == [id |-> id, name |-> <<"sake_types.name", id>>]

BreweryRow(id) ==
    [id |-> id, name |-> <<"breweries.name", id>>, origin_country |-> "JP",
     origin_region |-> IF id % 2 = 1 THEN {<<"breweries.origin_region", id>>} ELSE {},
     position |-> IF id % 2 = 1 THEN {<<"point", id>>} ELSE {}]

DrinkStyleRow(id) ==
    [id |-> id, name |-> <<"drink_styles.name", id>>,
     description |-> IF id % 2 = 1 THEN {<<"drink_styles.description", id>>} ELSE {}]

SakeRow(id) ==
    [id |-> id, type_id |-> TypeOf(id), brewery_id |-> BreweryOf(id),
     name |-> <<"sakes.name", id>>,
     abv |-> [Valid |-> TRUE, hundredths |-> 1500 + id],
     taste_notes |-> <<"sakes.taste_notes", id>>,
     memo |-> IF id % 2 = 0 THEN {<<"sakes.memo", id>>} ELSE {},
     created_at |-> CreatedAt(id), updated_at |-> CreatedAt(id) + id]

\* Driver-level failures of a store call other than "no rows".
StoreFaults == {PlainError("connection refused"), PlainError("context deadline exceeded")}

VARIABLES
    sake_types,         \* ids of the rows of table sake_types
    breweries,          \* ids of the rows of table breweries
    drink_styles,       \* ids of the rows of table drink_styles
    sakes,              \* rows of table sakes
    sake_drink_styles,  \* rows <<sake_id, drink_style_id>> of the join table
    pc,                 \* position of the request being handled
    caller,             \* "http": via the handler, "direct": Execute called directly,
                        \* "handleError": handleError called directly, "none"
    params,             \* generated.ListSakesParams of the HTTP request
    input,              \* ListSakesInput received by Execute
    execCalls,          \* calls of Execute made for the current request
    filter,             \* ListSakesFilter received by List
    total,              \* result of CountSakes
    sakeRows,           \* result of ListSakes
    idx,                \* index in sakeRows of the row being hydrated
    acc,                \* sakes hydrated so far
    queries,            \* store calls of the current request, in order, each
                        \* with the error and the number of rows it returned
    listResult,         \* what List returned
    execResult,         \* what Execute returned
    handled,            \* the error handleError was called with
    response,           \* what was written to the HTTP response
    scan,               \* the pages a client paging through the list got from its
                        \* latest run of successful List calls at offsets 0, L, 2L, ...
    ctx,                \* the request's context: "live", "canceled" or
                        \* "deadline exceeded"
    globalLogger,       \* package variable logger.globalLogger
    handlers,           \* the trace point each of the other handler invocations
                        \* running in the process has reached
    environ,            \* what config.Load reads: the environment variables and
                        \* the content of config/config.yaml
    config,             \* what config.Load returned to main
    main,               \* position of the main goroutine
    start,              \* position of the goroutine running Server.Start
    httpServer,         \* Server.httpServer: "nil" until Start assigns it, then
                        \* the state of the http.Server
    postgresPool,       \* the pgxpool.Pool: "nil", "open" or "closed"
    valkeyClient,       \* the valkey.Client: "nil", "open" or "closed"
    cacheOps,           \* commands sent through the valkey.Client, in order, each
                        \* with the function that sent it
    health,             \* what the latest GET /health was answered
    shutdown            \* what Server.Shutdown did: the resources it released, in
                        \* order, and what it returned

store == <<sake_types, breweries, drink_styles, sakes, sake_drink_styles>>
request == <<pc, caller, params, input, execCalls, filter, total, sakeRows, idx, acc, queries,
             listResult, execResult, handled, response, ctx>>
vars == <<sake_types, breweries, drink_styles, sakes, sake_drink_styles,
          pc, caller, params, input, execCalls, filter, total, sakeRows, idx, acc, queries,
          listResult, execResult, handled, response, scan, ctx, globalLogger, handlers,
          environ, config, main, start, httpServer, postgresPool, valkeyClient, cacheOps,
          health, shutdown>>
process == <<globalLogger, handlers>>
lifecycle == <<environ, config, main, start, httpServer, postgresPool, valkeyClient, health,
               shutdown>>

\* ---------------------------------------------------------------- queries
\* WHERE (narg IS NULL OR s.type_id = narg) AND (narg IS NULL OR s.brewery_id = narg)
Matching(f) ==
    {r \in sakes : /\ (f.TypeID = {} \/ r.type_id \in f.TypeID)
                   /\ (f.BreweryID = {} \/ r.brewery_id \in f.BreweryID)}

\* The WHERE clause of CountSakes, written out a second time in sakes.sql.
CountMatchingNoNullGuard(f) ==
    {r \in sakes : /\ (f.TypeID # {} /\ r.type_id \in f.TypeID)
                   /\ (f.BreweryID # {} /\ r.brewery_id \in f.BreweryID)}

CountMatching(f) ==
    {r \in sakes : /\ (f.TypeID = {} \/ r.type_id \in f.TypeID)
                   /\ (f.BreweryID = {} \/ r.brewery_id \in f.BreweryID)}

\* SELECT COUNT(*) ... (CountSakes)
CountSakesQuery(f) == Cardinality(CountMatching(f))

\* ORDER BY s.created_at DESC: every order of the rows the clause allows.
OrderedByCreatedAtDesc(S) ==
    {s \in MapOrders(S) : \A i, j \in 1..Cardinality(S) :
                              i < j => s[i].created_at >= s[j].created_at}

\* SELECT ... ORDER BY s.created_at DESC LIMIT $1 OFFSET $2 (ListSakes): the
\* pages the query may return; the store rejects a negative LIMIT or OFFSET.
ListSakesQueryOffsetAfterLimit(f) ==
    IF f.Offset < 0 \/ f.Limit < 0 THEN {} ELSE
    {SubSeq(ord, f.Offset + 1, Min(f.Limit, Len(ord))) :
        ord \in OrderedByCreatedAtDesc(Matching(f))}

ListSakesQuery(f) ==
    IF f.Offset < 0 \/ f.Limit < 0 THEN {} ELSE
    {SubSeq(ord, f.Offset + 1, Min(f.Offset + f.Limit, Len(ord))) :
        ord \in OrderedByCreatedAtDesc(Matching(f))}

ListSakesFaults(f) ==
    StoreFaults \cup (IF f.Offset < 0 \/ f.Limit < 0
                      THEN {PlainError("LIMIT and OFFSET must not be negative")} ELSE {})

\* SELECT ... FROM sake_types WHERE id = $1 (GetSakeType): the row found.
GetSakeTypeQuery(id) == {t \in sake_types : t = id}

\* SELECT ... FROM breweries WHERE id = $1 (GetBrewery)
GetBreweryQuery(id) == {b \in breweries : b = id}

RECURSIVE SortAsc(_)
SortAsc(S) ==
    IF S = {} THEN << >>
    ELSE LET m == CHOOSE x \in S : \A y \in S : x <= y
         IN  <<m>> \o SortAsc(S \ {m})

\* SELECT ds.* FROM drink_styles ds INNER JOIN sake_drink_styles sds ...
\* WHERE sds.sake_id = $1 ORDER BY ds.id (GetDrinkStylesBySakeID)
GetDrinkStylesBySakeIDQuery(sakeId) ==
    SortAsc({d \in drink_styles : <<sakeId, d>> \in sake_drink_styles})

\* extractCoordinates: not implemented, always (nil, nil)
extractCoordinatesOfPoint(position) ==
    IF position = {} THEN <<{}, {}>> ELSE <<{TheOne(position)[2]}, {TheOne(position)[2]}>>

extractCoordinates(position) == <<{}, {}>>

\* convertNumericToFloat32: 0 for a Numeric that is not valid, else the
\* float32 nearest to the value, written as the hundredths it stands for (two
\* values of NUMERIC(4, 2) never share their nearest float32).
convertNumericToFloat32(n) == IF ~n.Valid THEN 0 ELSE n.hundredths

\* The entity built at the end of toSakeEntity from the row and the rows its
\* lookups returned (dsRows: the ids of the drink style rows, in order).
SakeEntity(row, dsRows) ==
    LET sakeType == SakeTypeRow(row.type_id)
        brewery == BreweryRow(row.brewery_id)
    IN  [ID |-> row.id,
         Type |-> [ID |-> sakeType.id, Name |-> sakeType.name],
         Brewery |-> [ID |-> brewery.id,
                      Name |-> brewery.name,
                      OriginCountry |-> brewery.origin_country,
                      OriginRegion |-> brewery.origin_region,
                      Latitude |-> extractCoordinates(brewery.position)[1],
                      Longitude |-> extractCoordinates(brewery.position)[2]],
         Name |-> row.name,
         ABV |-> convertNumericToFloat32(row.abv),
         TasteNotes |-> row.taste_notes,
         Memo |-> row.memo,
         DrinkStyles |-> [i \in DOMAIN dsRows |->
                             [ID |-> DrinkStyleRow(dsRows[i]).id,
                              Name |-> DrinkStyleRow(dsRows[i]).name,
                              Description |-> DrinkStyleRow(dsRows[i]).description]],
         CreatedAt |-> row.created_at,
         UpdatedAt |-> row.updated_at]

\* ------------------------------------------------------------------ process
\* globalLogger when the server starts serving: main runs logger.Init, and
\* leaves when it fails, before it builds the server.
LoggerInitSkipped == "nil"

LoggerInit == "configured"

\* The other handler invocations that run in the process while the request
\* is handled.
OtherHandlers == 1..MaxOtherHandlers

\* The calls of TraceMethodAuto of one GET /sakes, in order.
TracePoints == <<"ListSakes", "Execute", "List">>

\* ------------------------------------------------------------------- config
\* Three of the settings of Config, by their viper keys: an int and two
\* strings.
ConfigKeys == {"server.port", "server.mode", "database.host"}

\* setDefaults, each value as the text of the literal
Default(key) ==
    CASE key = "server.port" -> "8080"
      [] key = "server.mode" -> "debug"
      [] key = "database.host" -> "localhost"

\* The environment variable AutomaticEnv reads for a key under
\* SetEnvKeyReplacer(strings.NewReplacer(".", "_")): the key in upper case
\* with "_" for ".".
EnvKey(key) ==
    CASE key = "server.port" -> "SERVER_PORT"
      [] key = "server.mode" -> "SERVER_MODE"
      [] key = "database.host" -> "DATABASE_HOST"

EnvNames == {"ENV"} \cup {EnvKey(k) : k \in ConfigKeys}

\* Values the environment variables are set to, and values config.yaml
\* gives the keys (each as the text of the scalar).
EnvVals(name) ==
    CASE name = "ENV" -> {"", "local", "production"}
      [] name = "SERVER_PORT" -> {"", "9000", "invalid_port"}
      [] name = "SERVER_MODE" -> {"", "release"}
      [] name = "DATABASE_HOST" -> {"", "override-db"}

FileVals(key) ==
    CASE key = "server.port" -> {"9999", "invalid_port"}
      [] key = "server.mode" -> {"test"}
      [] key = "database.host" -> {"test-db"}

\* The environments config.Load is run in: file is {} when no config.yaml
\* is found on the search path.
Environs ==
    {[env |-> ev, file |-> fl] :
        ev \in {f \in [EnvNames -> Opt(UNION {EnvVals(n) : n \in EnvNames})] :
                   \A n \in EnvNames : f[n] \subseteq EnvVals(n)},
        fl \in Opt({f \in [ConfigKeys -> Opt(UNION {FileVals(k) : k \in ConfigKeys})] :
                       \A k \in ConfigKeys : f[k] \subseteq FileVals(k)})}

\* Nothing set, no file.
DefaultEnviron == [env |-> [n \in EnvNames |-> {}], file |-> {}]

\* viper's lookup of an environment variable: a variable set to the empty
\* string counts as not set (AllowEmptyEnv is off).
getEnv(e, name) == {v \in e.env[name] : v # ""}

\* Load: the file ReadInConfig has read, none outside the local environment
\* or when the file is missing (the error is printed and dropped). os.Getenv
\* gives "" for a variable that is not set, and Load then takes "local".
ReadInConfig(e) ==
    LET getenv == IF e.env["ENV"] = {} THEN "" ELSE TheOne(e.env["ENV"])
        env == IF getenv = "" THEN "local" ELSE getenv
    IN  IF env = "local" THEN e.file ELSE {}

\* The value viper finds for a key: environment, then file, then default.
FindFileFirst(e, key) ==
    LET fromEnv == getEnv(e, EnvKey(key))
        fromFile == UNION {f[key] : f \in ReadInConfig(e)}
    IN  IF fromFile # {} THEN TheOne(fromFile)
        ELSE IF fromEnv # {} THEN TheOne(fromEnv)
        ELSE Default(key)

Find(e, key) ==
    LET fromEnv == getEnv(e, EnvKey(key))
        fromFile == UNION {f[key] : f \in ReadInConfig(e)}
    IN  IF fromEnv # {} THEN TheOne(fromEnv)
        ELSE IF fromFile # {} THEN TheOne(fromFile)
        ELSE Default(key)

\* v.Unmarshal of one key into its field of Config: Port is an int, parsed
\* from decimal text ({} for a text that is no number); Mode and Host are
\* strings.
Decode(key, text) ==
    IF key # "server.port" THEN {text}
    ELSE CASE text = "8080" -> {8080}
           [] text = "9000" -> {9000}
           [] text = "9999" -> {9999}
           [] OTHER -> {}

\* config.Load: (*Config, error)
Load(e) ==
    IF \E k \in ConfigKeys : Decode(k, Find(e, k)) = {}
    THEN [returned |-> TRUE, err |-> WrapError(PlainError("cannot parse value")), cfg |-> {}]
    ELSE [returned |-> TRUE, err |-> NoError,
          cfg |-> {[k \in ConfigKeys |-> TheOne(Decode(k, Find(e, k)))]}]

\* ---------------------------------------------------------------- lifecycle
\* The command NewValkeyClient sends to check the connection.
StartupPing == [op |-> "PING", by |-> "NewValkeyClient"]

\* The command HealthCheckValkey sends.
HealthPing == [op |-> "PING", by |-> "HealthCheckValkey"]

NoHealth ==
    [n |-> 0, req |-> [postgres |-> TRUE, valkey |-> TRUE],
     code |-> 0, Status |-> "", Postgres |-> "", Valkey |-> ""]
NoShutdown == [returned |-> FALSE, err |-> NoError, released |-> << >>]

\* The process once main waits for a signal and Start serves.
Serving ==
    /\ environ = DefaultEnviron
    /\ config = Load(DefaultEnviron)
    /\ main = "wait"
    /\ start = "serve"
    /\ httpServer = "listening"
    /\ postgresPool = "open"
    /\ valkeyClient = "open"
    /\ cacheOps = <<StartupPing>>
    /\ health = NoHealth
    /\ shutdown = NoShutdown

\* ------------------------------------------------------------ neutral values
NoParams == [Offset |-> {}, Limit |-> {}, TypeId |-> {}, BreweryId |-> {}]
NoInput == [TypeID |-> {}, BreweryID |-> {}, Offset |-> 0, Limit |-> 0]
ZeroPagination == [Total |-> 0, Offset |-> 0, Limit |-> 0]
NoListResult == [returned |-> FALSE, sakes |-> NilSlice, pagination |-> ZeroPagination,
                 err |-> NoError]
NoExecResult == [returned |-> FALSE, outputNil |-> TRUE,
                 output |-> [Sakes |-> NilSlice, Pagination |-> ZeroPagination],
                 err |-> NoError]
NoResponse == [status |-> 0, dataNull |-> TRUE, data |-> << >>,
               metaNull |-> TRUE, meta |-> ZeroPagination,
               errorsNull |-> TRUE, errors |-> << >>]
NoScan == [TypeID |-> {}, BreweryID |-> {}, Limit |-> 0, pages |-> << >>]

Init ==
    /\ sake_types = {}
    /\ breweries = {}
    /\ drink_styles = DrinkStyleIds
    /\ sakes = {}
    /\ sake_drink_styles = {}
    /\ pc = "idle"
    /\ caller = "none"
    /\ params = NoParams
    /\ input = NoInput
    /\ execCalls = 0
    /\ filter = NoInput
    /\ total = 0
    /\ sakeRows = << >>
    /\ idx = 0
    /\ acc = << >>
    /\ queries = << >>
    /\ listResult = NoListResult
    /\ execResult = NoExecResult
    /\ handled = NoError
    /\ response = NoResponse
    /\ scan = NoScan
    /\ ctx = "live"
    /\ globalLogger = LoggerInit
    /\ handlers = [h \in OtherHandlers |-> "idle"]
    /\ Serving

\* ------------------------------------------------------------ request values
OffsetVals == (MinOffset - 1)..MaxOffsetProbe
LimitVals == {MinLimit - 1, MinLimit, MinLimit + 1, MaxLimit, MaxLimit + 1}
TypeIdVals == (MinId - 1)..MaxTypeId
BreweryIdVals == (MinId - 1)..MaxBreweryId

ListSakesParams ==
    [Offset : Opt(OffsetVals), Limit : Opt(LimitVals),
     TypeId : Opt(TypeIdVals), BreweryId : Opt(BreweryIdVals)]

ListSakesInputs ==
    [TypeID : Opt(SakeTypeIds), BreweryID : Opt(BreweryIds),
     Offset : OffsetVals, Limit : LimitVals]

\* The requests made while other clients write the store.
SampleParams ==
    [Offset : {{}, {MinOffset + 1}}, Limit : {{}, {MinLimit}},
     TypeId : {{}, {MinId - 1}, {MinId}}, BreweryId : {{}}]

SampleInputs ==
    [TypeID : {{}}, BreweryID : {{}}, Offset : {MinOffset - 1}, Limit : {MaxLimit + 1}]

\* Errors handed to handleError by its direct callers.
ErrorUniverse ==
    LET apps == { BadRequestError("m"), NotFoundError("m"), UnauthorizedError("m"),
                  ForbiddenError("m"), ConflictError("m"), InternalServerError("m"),
                  GroupAccessDeniedError("m") }
                \cup {DatabaseError("m", e) : e \in StoreFaults}
        vals == { NewValidationError("m"),
                  AddField(NewValidationError("m"), "field1", "message1"),
                  AddField(AddField(NewValidationError("m"), "field1", "message1"),
                           "field2", "message2") }
        plain == {PlainError("unexpected error")}
    IN  apps \cup vals \cup plain
        \cup {WrapError(e) : e \in apps \cup vals \cup plain}

\* Outputs a ListSakesUsecaseInterface other than ListSakesUsecase (a
\* test double) hands to the handler.
SampleDrinkStyles ==
    << [ID |-> 2, Name |-> <<"name", "cold">>, Description |-> {<<"description", "chilled">>}],
       [ID |-> 1, Name |-> <<"name", "warm">>, Description |-> {}] >>

SampleSakes ==
    { [ID |-> 1,
       Type |-> [ID |-> 1, Name |-> <<"name", "junmai daiginjo">>],
       Brewery |-> [ID |-> 1, Name |-> <<"name", "asahi shuzo">>, OriginCountry |-> "JP",
                    OriginRegion |-> region, Latitude |-> coord, Longitude |-> coord],
       Name |-> <<"name", "dassai">>,
       ABV |-> 1600,
       TasteNotes |-> <<"taste_notes", "fruity">>,
       Memo |-> memo,
       DrinkStyles |-> styles,
       CreatedAt |-> 1,
       UpdatedAt |-> 2]
        : region \in Opt({<<"origin_region", "yamaguchi">>}),
          coord \in Opt({35}),
          memo \in Opt({<<"memo", "note">>}),
          styles \in {<< >>, SampleDrinkStyles} }

SampleOutputs ==
    LET one == CHOOSE s \in SampleSakes : s.Memo # {} /\ s.DrinkStyles # << >>
        other == CHOOSE s \in SampleSakes : s.Memo = {} /\ s.DrinkStyles = << >>
    IN  [Sakes : {NilSlice, Slice(<< >>), Slice(<<one, other>>)}
                    \cup {Slice(<<s>>) : s \in SampleSakes},
         Pagination : {[Total |-> 100, Offset |-> DefaultOffset, Limit |-> DefaultLimit],
                       [Total |-> 0, Offset |-> MinOffset + 1, Limit |-> MaxLimit]}]

\* ------------------------------------------------------------------ returns
\* return of Execute given what List returned
ExecuteReturnWraps(s, p, e) ==
    IF e # NoError
    THEN [returned |-> TRUE, outputNil |-> TRUE,
          output |-> [Sakes |-> NilSlice, Pagination |-> ZeroPagination], err |-> WrapError(e)]
    ELSE [returned |-> TRUE, outputNil |-> FALSE,
          output |-> [Sakes |-> s, Pagination |-> p], err |-> NoError]

ExecuteReturn(s, p, e) ==
    IF e # NoError
    THEN [returned |-> TRUE, outputNil |-> TRUE,
          output |-> [Sakes |-> NilSlice, Pagination |-> ZeroPagination], err |-> e]
    ELSE [returned |-> TRUE, outputNil |-> FALSE,
          output |-> [Sakes |-> s, Pagination |-> p], err |-> NoError]

\* List returns (s, p, e); Execute returns on top of it; when the caller is
\* the handler, it writes the response.
ListReturns(s, p, e) ==
    LET er == ExecuteReturn(s, p, e)
    IN  /\ listResult' = [returned |-> TRUE, sakes |-> s, pagination |-> p, err |-> e]
        /\ execResult' = er
        /\ IF caller = "http"
           THEN IF er.err # NoError
                THEN /\ handled' = er.err
                     /\ response' \in handleError(er.err)
                ELSE /\ handled' = NoError
                     /\ response' = toListSakesResponse(er.output)
           ELSE UNCHANGED <<handled, response>>
        /\ pc' = "done"

\* List goes on to its next store call.
ListContinues(next) ==
    /\ pc' = next
    /\ UNCHANGED <<listResult, execResult, handled, response>>

\* The pagination List builds on success.
ListPaginationEchoesInput ==
    [Total |-> total, Offset |-> input.Offset, Limit |-> input.Limit]

ListPaginationTotalFromPage ==
    [Total |-> Len(sakeRows), Offset |-> filter.Offset, Limit |-> filter.Limit]

ListPagination == [Total |-> total, Offset |-> filter.Offset, Limit |-> filter.Limit]

\* The error toSakeEntity returns for a failed GetSakeType or GetBrewery.
LookupErrorAllDatabase(err, notFound, failed) == DatabaseError(failed, err)

LookupError(err, notFound, failed) ==
    IF ErrorsIs(err, ErrNoRows) THEN NotFoundError(notFound) ELSE DatabaseError(failed, err)

\* What List returns when toSakeEntity fails with err.
HydrationFailurePartial(err) == ListReturns(Slice(acc), ListPagination, NoError)

HydrationFailure(err) == ListReturns(NilSlice, ZeroPagination, err)

\* ctx.Err() of a context that is done
CtxErr(c) ==
    IF c = "canceled" THEN PlainError("context canceled")
    ELSE PlainError("context deadline exceeded")

\* The errors a store call made with context c can return, outcomes being
\* those of a call whose context stays live: a call made with a context that
\* is done returns the context's error and runs no query.
StoreCallIgnoresCtx(c, outcomes) == outcomes

StoreCall(c, outcomes) == IF c = "live" THEN outcomes ELSE {CtxErr(c)}

\* logger.Get: globalLogger once the call is over. A nil globalLogger is
\* replaced by a development logger; the call returns globalLogger.
Get(g) == IF g = "nil" THEN "development" ELSE g

\* globalLogger once a store call that returned err has been dealt with:
\* an error other than "no rows" is logged with LogDatabaseError, which
\* calls WithContext and through it Get.
LoggerAfterStoreCall(err) ==
    IF err # NoError /\ ~ErrorsIs(err, ErrNoRows) THEN Get(globalLogger) ELSE globalLogger

\* One entry of the log of store calls: the query, the id it looks up (0
\* for the count and the page), its error and the number of rows it returned.
Query(q, arg, err, n) == [q |-> q, arg |-> arg, err |-> err, n |-> n]

\* Outcome of a :one lookup that finds the rows found.
OneRowOutcomes(found) == (IF found = {} THEN {ErrNoRows} ELSE {NoError}) \cup StoreFaults

\* ------------------------------------------------------------------ actions
\* SakeServerImpl.ListSakes up to its first store call
ListSakes(p) ==
    /\ pc = "idle"
    /\ caller' = "http"
    /\ params' = p
    /\ LET err == validateListSakesParams(p)
       IN  IF err # NoError
           THEN /\ handled' = err
                /\ response' \in handleError(err)
                /\ pc' = "done"
                /\ UNCHANGED <<input, execCalls, filter>>
           ELSE /\ input' = HandlerInput(p)
                /\ execCalls' = execCalls + 1
                /\ filter' = ExecuteFilter(HandlerInput(p))
                /\ pc' = "count"
                /\ UNCHANGED <<handled, response>>
    /\ globalLogger' = Get(globalLogger)
    /\ UNCHANGED <<lifecycle, cacheOps, store, scan, ctx, handlers, total, sakeRows, idx, acc, queries, listResult, execResult>>

\* ListSakesUsecase.Execute called by a caller other than the handler
Execute(in) ==
    /\ pc = "idle"
    /\ caller' = "direct"
    /\ input' = in
    /\ execCalls' = execCalls + 1
    /\ filter' = ExecuteFilter(in)
    /\ pc' = "count"
    /\ globalLogger' = Get(globalLogger)
    /\ UNCHANGED <<lifecycle, cacheOps, store, scan, ctx, handlers, params, total, sakeRows, idx, acc, queries, listResult, execResult,
                   handled, response>>

\* handleError called on its own
HandleError(err) ==
    /\ pc = "idle"
    /\ caller' = "handleError"
    /\ handled' = err
    /\ response' \in handleError(err)
    /\ pc' = "done"
    /\ UNCHANGED <<lifecycle, cacheOps, store, scan, ctx, process, params, input, execCalls, filter, total, sakeRows, idx, acc, queries,
                   listResult, execResult>>

\* SakeServerImpl.ListSakes from the return of Execute on, for a use case
\* that returns output and no error
ToListSakesResponse(output) ==
    /\ pc = "idle"
    /\ caller' = "toListSakesResponse"
    /\ execResult' = [returned |-> TRUE, outputNil |-> FALSE, output |-> output, err |-> NoError]
    /\ response' = toListSakesResponse(output)
    /\ pc' = "done"
    /\ UNCHANGED <<lifecycle, cacheOps, store, scan, ctx, process, params, input, execCalls, filter, total, sakeRows, idx, acc,
                   queries, listResult, handled>>

\* List: r.queries.CountSakes
QueriesCountSakes ==
    /\ pc = "count"
    /\ \E err \in StoreCall(ctx, {NoError} \cup StoreFaults) :
          IF err = NoError
          THEN /\ total' = CountSakesQuery(filter)
               /\ queries' = Append(queries, Query("CountSakes", 0, NoError, 1))
               /\ ListContinues("page")
          ELSE /\ queries' = Append(queries, Query("CountSakes", 0, err, 0))
               /\ ListReturns(NilSlice, ZeroPagination, DatabaseError("failed to count sakes", err))
               /\ UNCHANGED total
    /\ globalLogger' = LoggerAfterStoreCall(queries'[Len(queries')].err)
    /\ UNCHANGED <<lifecycle, cacheOps, store, scan, ctx, handlers, caller, params, input, execCalls, filter, sakeRows, idx, acc>>

\* List: r.queries.ListSakes; with an empty page the loop body never runs
QueriesListSakesRecount ==
    /\ pc = "page"
    /\ total' = CountSakesQuery(filter)
    /\ \E err \in StoreCall(ctx, {NoError} \cup ListSakesFaults(filter)) :
          IF err = NoError
          THEN \E rows \in ListSakesQuery(filter) :
                  /\ sakeRows' = rows
                  /\ queries' = Append(queries, Query("ListSakes", 0, NoError, Len(rows)))
                  /\ IF Len(rows) = 0
                     THEN /\ ListContinues("return")
                          /\ UNCHANGED idx
                     ELSE /\ idx' = 1
                          /\ ListContinues("type")
          ELSE /\ queries' = Append(queries, Query("ListSakes", 0, err, 0))
               /\ ListReturns(NilSlice, ZeroPagination, DatabaseError("failed to list sakes", err))
               /\ UNCHANGED <<sakeRows, idx>>
    /\ globalLogger' = LoggerAfterStoreCall(queries'[Len(queries')].err)
    /\ UNCHANGED <<lifecycle, cacheOps, store, scan, ctx, handlers, caller, params, input, execCalls, filter, acc>>

QueriesListSakes ==
    /\ pc = "page"
    /\ \E err \in StoreCall(ctx, {NoError} \cup ListSakesFaults(filter)) :
          IF err = NoError
          THEN \E rows \in ListSakesQuery(filter) :
                  /\ sakeRows' = rows
                  /\ queries' = Append(queries, Query("ListSakes", 0, NoError, Len(rows)))
                  /\ IF Len(rows) = 0
                     THEN /\ ListContinues("return")
                          /\ UNCHANGED idx
                     ELSE /\ idx' = 1
                          /\ ListContinues("type")
          ELSE /\ queries' = Append(queries, Query("ListSakes", 0, err, 0))
               /\ ListReturns(NilSlice, ZeroPagination, DatabaseError("failed to list sakes", err))
               /\ UNCHANGED <<sakeRows, idx>>
    /\ globalLogger' = LoggerAfterStoreCall(queries'[Len(queries')].err)
    /\ UNCHANGED <<lifecycle, cacheOps, store, scan, ctx, handlers, caller, params, input, execCalls, filter, total, acc>>

\* toSakeEntity: r.queries.GetSakeType
QueriesGetSakeTypeRetries ==
    /\ pc = "type"
    /\ \E err \in StoreCall(ctx, OneRowOutcomes(GetSakeTypeQuery(sakeRows[idx].type_id))) :
          /\ queries' = Append(queries, Query("GetSakeType", sakeRows[idx].type_id, err,
                                              IF err = NoError THEN 1 ELSE 0))
          /\ IF err \in StoreFaults /\ Len(queries) < 2 + 3 * idx
             THEN ListContinues("type")
             ELSE IF err # NoError
             THEN HydrationFailure(LookupError(err, "sake type not found",
                                               "failed to get sake type"))
             ELSE ListContinues("brewery")
    /\ globalLogger' = LoggerAfterStoreCall(queries'[Len(queries')].err)
    /\ UNCHANGED <<lifecycle, cacheOps, store, scan, ctx, handlers, caller, params, input,
                   execCalls, filter, total, sakeRows, idx, acc>>

QueriesGetSakeType ==
    /\ pc = "type"
    /\ \E err \in StoreCall(ctx, OneRowOutcomes(GetSakeTypeQuery(sakeRows[idx].type_id))) :
          /\ queries' = Append(queries, Query("GetSakeType", sakeRows[idx].type_id, err,
                                              IF err = NoError THEN 1 ELSE 0))
          /\ IF err # NoError
             THEN HydrationFailure(LookupError(err, "sake type not found",
                                               "failed to get sake type"))
             ELSE ListContinues("brewery")
    /\ globalLogger' = LoggerAfterStoreCall(queries'[Len(queries')].err)
    /\ UNCHANGED <<lifecycle, cacheOps, store, scan, ctx, handlers, caller, params, input, execCalls, filter, total, sakeRows, idx, acc>>

\* toSakeEntity: r.queries.GetBrewery
QueriesGetBrewery ==
    /\ pc = "brewery"
    /\ \E err \in StoreCall(ctx, OneRowOutcomes(GetBreweryQuery(sakeRows[idx].brewery_id))) :
          /\ queries' = Append(queries, Query("GetBrewery", sakeRows[idx].brewery_id, err,
                                              IF err = NoError THEN 1 ELSE 0))
          /\ IF err # NoError
             THEN HydrationFailure(LookupError(err, "brewery not found",
                                               "failed to get brewery"))
             ELSE ListContinues("drink_styles")
    /\ globalLogger' = LoggerAfterStoreCall(queries'[Len(queries')].err)
    /\ UNCHANGED <<lifecycle, cacheOps, store, scan, ctx, handlers, caller, params, input, execCalls, filter, total, sakeRows, idx, acc>>

\* toSakeEntity: r.queries.GetDrinkStylesBySakeID and the entity; List appends
\* it and moves to the next row, or leaves the loop after the last one
QueriesGetDrinkStylesBySakeID ==
    /\ pc = "drink_styles"
    /\ \E err \in StoreCall(ctx, {NoError} \cup StoreFaults) :
          IF err = NoError
          THEN LET dsRows == GetDrinkStylesBySakeIDQuery(sakeRows[idx].id)
                   sake == SakeEntity(sakeRows[idx], dsRows)
               IN  /\ queries' = Append(queries,
                                        Query("GetDrinkStylesBySakeID", sakeRows[idx].id, NoError, Len(dsRows)))
                   /\ acc' = Append(acc, sake)
                   /\ IF idx = Len(sakeRows)
                      THEN /\ ListContinues("return")
                           /\ UNCHANGED idx
                      ELSE /\ idx' = idx + 1
                           /\ ListContinues("type")
          ELSE /\ queries' = Append(queries, Query("GetDrinkStylesBySakeID", sakeRows[idx].id, err, 0))
               /\ HydrationFailure(DatabaseError("failed to get drink styles", err))
               /\ UNCHANGED <<idx, acc>>
    /\ globalLogger' = LoggerAfterStoreCall(queries'[Len(queries')].err)
    /\ UNCHANGED <<lifecycle, cacheOps, store, scan, ctx, handlers, caller, params, input, execCalls, filter, total, sakeRows>>

\* List: the rows are all hydrated; it builds the Pagination and returns the
\* page, without looking at the context
ListReturnCachesPage ==
    /\ pc = "return"
    /\ ListReturns(Slice(acc), ListPagination, NoError)
    /\ cacheOps' = Append(cacheOps, [op |-> "SET", by |-> "List"])
    /\ UNCHANGED <<lifecycle, store, scan, ctx, process, caller, params, input, execCalls, filter,
                   total, sakeRows, idx, acc, queries>>

ListReturn ==
    /\ pc = "return"
    /\ ListReturns(Slice(acc), ListPagination, NoError)
    /\ UNCHANGED <<lifecycle, cacheOps, store, scan, ctx, process, caller, params, input, execCalls, filter, total, sakeRows,
                   idx, acc, queries>>

\* The request's context is done while the request is being handled: the
\* client went away, or a deadline set on the context passed.
Cancel(c) ==
    /\ pc \in {"count", "page", "type", "brewery", "drink_styles", "return"}
    /\ ctx = "live"
    /\ ctx' = c
    /\ UNCHANGED <<lifecycle, cacheOps, store, scan, process, pc, caller, params, input, execCalls, filter, total, sakeRows,
                   idx, acc, queries, listResult, execResult, handled, response>>

\* Another handler invocation reaches its next call of TraceMethodAuto
\* (WithContext, Get), or ends after the last.
OtherHandler(h) ==
    /\ \/ /\ handlers[h] = "idle"
          /\ handlers' = [handlers EXCEPT ![h] = TracePoints[1]]
          /\ globalLogger' = Get(globalLogger)
       \/ \E i \in 1..(Len(TracePoints) - 1) :
            /\ handlers[h] = TracePoints[i]
            /\ handlers' = [handlers EXCEPT ![h] = TracePoints[i + 1]]
            /\ globalLogger' = Get(globalLogger)
       \/ /\ handlers[h] = TracePoints[Len(TracePoints)]
          /\ handlers' = [handlers EXCEPT ![h] = "idle"]
          /\ UNCHANGED globalLogger
    /\ UNCHANGED <<lifecycle, cacheOps, store, request, scan>>

\* The request is over; the next one starts from a fresh handler invocation.
RequestOver ==
    /\ pc = "done"
    /\ pc' = "idle"
    /\ caller' = "none"
    /\ params' = NoParams
    /\ input' = NoInput
    /\ execCalls' = 0
    /\ filter' = NoInput
    /\ total' = 0
    /\ sakeRows' = << >>
    /\ idx' = 0
    /\ acc' = << >>
    /\ queries' = << >>
    /\ listResult' = NoListResult
    /\ execResult' = NoExecResult
    /\ handled' = NoError
    /\ response' = NoResponse
    /\ ctx' = "live"

NextRequest ==
    /\ RequestOver
    /\ scan' = NoScan
    /\ UNCHANGED <<lifecycle, cacheOps, store, process>>

\* The ids of the sakes of a page, in order.
PageIds(slice) == [i \in DOMAIN slice.elems |-> slice.elems[i].ID]

\* A client paging through the list keeps the page of a successful call: a
\* call at offset 0 starts a run, a call with the same filter and limit at the
\* offset following the pages kept so far continues it.
ScanCollect ==
    /\ RequestOver
    /\ caller = "direct"
    /\ execResult.returned
    /\ execResult.err = NoError
    /\ input.Offset = filter.Offset
    /\ input.Limit = filter.Limit
    /\ \/ /\ filter.Offset = 0
          /\ scan' = [TypeID |-> filter.TypeID, BreweryID |-> filter.BreweryID,
                      Limit |-> filter.Limit,
                      pages |-> <<PageIds(execResult.output.Sakes)>>]
       \/ /\ filter.Offset > 0
          /\ scan.TypeID = filter.TypeID
          /\ scan.BreweryID = filter.BreweryID
          /\ scan.Limit = filter.Limit
          /\ filter.Offset = Len(scan.pages) * scan.Limit
          /\ scan' = [scan EXCEPT !.pages = Append(@, PageIds(execResult.output.Sakes))]
    /\ UNCHANGED <<lifecycle, cacheOps, store, process>>

\* --------------------------------------------------------- server lifecycle
\* The process runs until main leaves (os.Exit, log.Fatalf, logger.Fatal,
\* return) or a goroutine panics.
Alive == main \notin {"exit", "panic"}

\* main: config.Load, log.Fatalf on error
MainLoad ==
    /\ main = "load"
    /\ config' = Load(environ)
    /\ main' = IF config'.err # NoError THEN "exit" ELSE "logger"
    /\ UNCHANGED <<store, request, scan, process, environ, start, httpServer, postgresPool,
                   valkeyClient, cacheOps, health, shutdown>>

\* main: logger.Init, log.Fatalf on error; logger.Get().Info
MainLoggerInit ==
    /\ main = "logger"
    /\ \/ /\ globalLogger' = Get(LoggerInit)
          /\ main' = "postgres"
       \/ /\ globalLogger' = "nil"
          /\ main' = "exit"
    /\ UNCHANGED <<store, request, scan, handlers, environ, config, start, httpServer,
                   postgresPool, valkeyClient, cacheOps, health, shutdown>>

\* main: database.NewPostgresPool, logger.Get().Fatal on error
MainPostgres ==
    /\ main = "postgres"
    /\ \/ /\ postgresPool' = "open"
          /\ main' = "valkey"
       \/ /\ main' = "exit"
          /\ UNCHANGED postgresPool
    /\ globalLogger' = Get(globalLogger)
    /\ UNCHANGED <<store, request, scan, handlers, environ, config, start, httpServer,
                   valkeyClient, cacheOps, health, shutdown>>

\* main: database.NewValkeyClient (valkey.NewClient, then PING),
\* logger.Get().Fatal on error
MainValkey ==
    /\ main = "valkey"
    /\ \/ /\ main' = "exit"
          /\ UNCHANGED <<valkeyClient, cacheOps>>
       \/ /\ cacheOps' = Append(cacheOps, StartupPing)
          /\ \/ /\ valkeyClient' = "open"
                /\ main' = "new"
             \/ /\ main' = "exit"
                /\ UNCHANGED valkeyClient
    /\ globalLogger' = Get(globalLogger)
    /\ UNCHANGED <<store, request, scan, handlers, environ, config, start, httpServer,
                   postgresPool, health, shutdown>>

\* main: server.New, then go srv.Start()
MainGo ==
    /\ main = "new"
    /\ start' = "ready"
    /\ main' = "notify"
    /\ UNCHANGED <<store, request, scan, process, environ, config, httpServer, postgresPool,
                   valkeyClient, cacheOps, health, shutdown>>

\* main: signal.Notify(quit, SIGINT, SIGTERM), then <-quit
MainNotify ==
    /\ main = "notify"
    /\ main' = "wait"
    /\ UNCHANGED <<store, request, scan, process, environ, config, start, httpServer,
                   postgresPool, valkeyClient, cacheOps, health, shutdown>>

\* SIGINT or SIGTERM arrives: main leaves <-quit and enters Shutdown
Signal ==
    /\ main = "wait"
    /\ main' = "shutdown"
    /\ globalLogger' = Get(globalLogger)
    /\ UNCHANGED <<store, request, scan, handlers, environ, config, start, httpServer,
                   postgresPool, valkeyClient, cacheOps, health, shutdown>>

\* Start: s.httpServer = &http.Server{...}
StartAssign ==
    /\ Alive
    /\ start = "ready"
    /\ httpServer' = "new"
    /\ start' = "listen"
    /\ globalLogger' = Get(globalLogger)
    /\ UNCHANGED <<store, request, scan, handlers, environ, config, main, postgresPool,
                   valkeyClient, cacheOps, health, shutdown>>

\* Start: s.httpServer.ListenAndServe() starts to serve, or fails and main's
\* goroutine ends the process with logger.Get().Fatal; once the server is shut
\* down it returns http.ErrServerClosed and Start returns nil
StartListenAndServe ==
    /\ Alive
    /\ \/ /\ start = "listen"
          /\ httpServer = "new"
          /\ \/ /\ httpServer' = "listening"
                /\ start' = "serve"
                /\ UNCHANGED main
             \/ /\ start' = "failed"
                /\ main' = "exit"
                /\ UNCHANGED httpServer
       \/ /\ start \in {"listen", "serve"}
          /\ httpServer = "closed"
          /\ start' = "returned"
          /\ UNCHANGED <<main, httpServer>>
    /\ globalLogger' = Get(globalLogger)
    /\ UNCHANGED <<store, request, scan, handlers, environ, config, postgresPool,
                   valkeyClient, cacheOps, health, shutdown>>

\* HealthCheckPostgresPool and HealthCheckValkey: SELECT 1, or PING, answered
\* within the two seconds of the check's timeout or not.
HealthCheckPostgresPool(reachable) ==
    IF reachable THEN NoError ELSE WrapError(PlainError("timeout: context deadline exceeded"))

HealthCheckValkey(reachable) ==
    IF reachable THEN NoError ELSE WrapError(PlainError("timeout: context deadline exceeded"))

\* handleHealth over a pool and a client ("nil" when the server has none)
\* that are reachable or not: the status code, the body, and the commands it
\* sent to the cache. A field left "" is omitted from the body.
handleHealthShortCircuit(pool, client, pgReachable, vkReachable) ==
    LET pg == IF pool = "nil" THEN ""
              ELSE IF HealthCheckPostgresPool(pgReachable) # NoError THEN "error" ELSE "ok"
        vk == IF client = "nil" \/ pg = "error" THEN ""
              ELSE IF HealthCheckValkey(vkReachable) # NoError THEN "error" ELSE "ok"
        status == IF pg = "error" \/ vk = "error" THEN "degraded" ELSE "ok"
    IN  [code |-> IF status # "ok" THEN StatusServiceUnavailable ELSE StatusOK,
         Status |-> status, Postgres |-> pg, Valkey |-> vk,
         sent |-> IF client = "nil" \/ pg = "error" THEN << >> ELSE <<HealthPing>>]

handleHealth(pool, client, pgReachable, vkReachable) ==
    LET pg == IF pool = "nil" THEN ""
              ELSE IF HealthCheckPostgresPool(pgReachable) # NoError THEN "error" ELSE "ok"
        vk == IF client = "nil" THEN ""
              ELSE IF HealthCheckValkey(vkReachable) # NoError THEN "error" ELSE "ok"
        status == IF pg = "error" \/ vk = "error" THEN "degraded" ELSE "ok"
    IN  [code |-> IF status # "ok" THEN StatusServiceUnavailable ELSE StatusOK,
         Status |-> status, Postgres |-> pg, Valkey |-> vk,
         sent |-> IF client = "nil" THEN << >> ELSE <<HealthPing>>]

\* GET /health, answered while the store and the cache are reachable or not
HandleHealth ==
    /\ Alive
    /\ httpServer = "listening"
    /\ health.n < MaxHealthChecks
    /\ \E pgReachable \in BOOLEAN, vkReachable \in BOOLEAN :
          LET r == handleHealth(postgresPool, valkeyClient, pgReachable, vkReachable)
          IN  /\ health' = [n |-> health.n + 1,
                            req |-> [postgres |-> pgReachable, valkey |-> vkReachable],
                            code |-> r.code, Status |-> r.Status,
                            Postgres |-> r.Postgres, Valkey |-> r.Valkey]
              /\ cacheOps' = cacheOps \o r.sent
    /\ UNCHANGED <<store, request, scan, process, environ, config, main, start, httpServer,
                   postgresPool, valkeyClient, shutdown>>

\* Shutdown: s.httpServer.Shutdown(ctx). With no http.Server assigned the
\* call dereferences nil and the process panics. The call stops the
\* listeners; it returns nil once no handler is running, or the context's
\* error when the timeout passes while one still is, and then Shutdown returns
\* that error and main leaves with os.Exit(1).
ShutdownHTTP ==
    /\ main = "shutdown"
    /\ IF httpServer = "nil"
       THEN /\ main' = "panic"
            /\ UNCHANGED <<httpServer, shutdown>>
       ELSE /\ httpServer' = "closed"
            /\ \/ /\ pc \in {"idle", "done"}
                  /\ shutdown' = [shutdown EXCEPT !.released = Append(@, "httpServer")]
                  /\ main' = "closePool"
               \/ /\ pc \notin {"idle", "done"}
                  /\ shutdown' = [shutdown EXCEPT !.returned = TRUE,
                                                  !.err = CtxErr("deadline exceeded")]
                  /\ main' = "exit"
    /\ globalLogger' = Get(globalLogger)
    /\ UNCHANGED <<store, request, scan, handlers, environ, config, start, postgresPool,
                   valkeyClient, cacheOps, health>>

\* Shutdown: s.postgresPool.Close()
ShutdownPostgres ==
    /\ main = "closePool"
    /\ IF postgresPool # "nil"
       THEN /\ postgresPool' = "closed"
            /\ shutdown' = [shutdown EXCEPT !.released = Append(@, "postgresPool")]
       ELSE UNCHANGED <<postgresPool, shutdown>>
    /\ main' = "closeValkey"
    /\ UNCHANGED <<store, request, scan, process, environ, config, start, httpServer,
                   valkeyClient, cacheOps, health>>

\* Shutdown: s.valkeyClient.Close(), return nil; main returns
ShutdownValkey ==
    /\ main = "closeValkey"
    /\ IF valkeyClient # "nil"
       THEN /\ valkeyClient' = "closed"
            /\ shutdown' = [shutdown EXCEPT !.released = Append(@, "valkeyClient"),
                                            !.returned = TRUE]
       ELSE /\ shutdown' = [shutdown EXCEPT !.returned = TRUE]
            /\ UNCHANGED valkeyClient
    /\ main' = "exit"
    /\ globalLogger' = Get(globalLogger)
    /\ UNCHANGED <<store, request, scan, handlers, environ, config, start, httpServer,
                   postgresPool, cacheOps, health>>

\* ------------------------------------------------- writes by other clients
InsertSakeType(t) ==
    /\ t \notin sake_types
    /\ sake_types' = sake_types \cup {t}
    /\ UNCHANGED <<breweries, drink_styles, sakes, sake_drink_styles, request, scan, process, lifecycle, cacheOps>>

\* ON DELETE RESTRICT of sakes.type_id
DeleteSakeType(t) ==
    /\ t \in sake_types
    /\ \A r \in sakes : r.type_id # t
    /\ sake_types' = sake_types \ {t}
    /\ UNCHANGED <<breweries, drink_styles, sakes, sake_drink_styles, request, scan, process, lifecycle, cacheOps>>

InsertBrewery(b) ==
    /\ b \notin breweries
    /\ breweries' = breweries \cup {b}
    /\ UNCHANGED <<sake_types, drink_styles, sakes, sake_drink_styles, request, scan, process, lifecycle, cacheOps>>

\* ON DELETE RESTRICT of sakes.brewery_id
DeleteBrewery(b) ==
    /\ b \in breweries
    /\ \A r \in sakes : r.brewery_id # b
    /\ breweries' = breweries \ {b}
    /\ UNCHANGED <<sake_types, drink_styles, sakes, sake_drink_styles, request, scan, process, lifecycle, cacheOps>>

\* A sake inserted with its drink styles in one transaction; type_id,
\* brewery_id and drink_style_id REFERENCES existing rows.
InsertSake(id) ==
    /\ \A r \in sakes : r.id # id
    /\ TypeOf(id) \in sake_types
    /\ BreweryOf(id) \in breweries
    /\ sakes' = sakes \cup {SakeRow(id)}
    /\ sake_drink_styles' = sake_drink_styles \cup {<<id, d>> : d \in DrinkStylesOf(id)}
    /\ UNCHANGED <<sake_types, breweries, drink_styles, request, scan, process, lifecycle, cacheOps>>

\* ON DELETE CASCADE of sake_drink_styles.sake_id
DeleteSake(id) ==
    /\ \E r \in sakes : r.id = id
    /\ sakes' = {r \in sakes : r.id # id}
    /\ sake_drink_styles' = {sd \in sake_drink_styles : sd[1] # id}
    /\ UNCHANGED <<sake_types, breweries, drink_styles, request, scan, process, lifecycle, cacheOps>>

\* Requests of a few shapes, each store call interleaved with the writes of
\* other clients.
Next ==
    \/ \E p \in SampleParams : ListSakes(p)
    \/ \E in \in SampleInputs : Execute(in)
    \/ \E err \in ErrorUniverse : HandleError(err)
    \/ QueriesCountSakes
    \/ QueriesListSakes
    \/ QueriesGetSakeType
    \/ QueriesGetBrewery
    \/ QueriesGetDrinkStylesBySakeID
    \/ ListReturn
    \/ NextRequest
    \/ \E t \in SakeTypeIds : InsertSakeType(t)
    \/ \E t \in SakeTypeIds : DeleteSakeType(t)
    \/ \E b \in BreweryIds : InsertBrewery(b)
    \/ \E b \in BreweryIds : DeleteBrewery(b)
    \/ \E id \in SakeIds : InsertSake(id)
    \/ \E id \in SakeIds : DeleteSake(id)
    \/ \E c \in {"canceled", "deadline exceeded"} : Cancel(c)

Spec == Init /\ [][Next]_vars

\* A store holding every row of the universe.
InitSeeded ==
    /\ sake_types = SakeTypeIds
    /\ breweries = BreweryIds
    /\ drink_styles = DrinkStyleIds
    /\ sakes = {SakeRow(id) : id \in SakeIds}
    /\ sake_drink_styles = {sd \in SakeIds \X DrinkStyleIds : sd[2] \in DrinkStylesOf(sd[1])}
    /\ pc = "idle"
    /\ caller = "none"
    /\ params = NoParams
    /\ input = NoInput
    /\ execCalls = 0
    /\ filter = NoInput
    /\ total = 0
    /\ sakeRows = << >>
    /\ idx = 0
    /\ acc = << >>
    /\ queries = << >>
    /\ listResult = NoListResult
    /\ execResult = NoExecResult
    /\ handled = NoError
    /\ response = NoResponse
    /\ scan = NoScan
    /\ ctx = "live"
    /\ globalLogger = LoggerInit
    /\ handlers = [h \in OtherHandlers |-> "idle"]
    /\ Serving

\* Requests of every shape over a store no other client writes.
NextParams ==
    \/ \E p \in ListSakesParams : ListSakes(p)
    \/ \E in \in ListSakesInputs : Execute(in)
    \/ \E err \in ErrorUniverse : HandleError(err)
    \/ \E output \in SampleOutputs : ToListSakesResponse(output)
    \/ \E h \in OtherHandlers : OtherHandler(h)
    \/ QueriesCountSakes
    \/ QueriesListSakes
    \/ QueriesGetSakeType
    \/ QueriesGetBrewery
    \/ QueriesGetDrinkStylesBySakeID
    \/ ListReturn
    \/ NextRequest

SpecParams == InitSeeded /\ [][NextParams]_vars

\* A store holding any of the sake rows of the universe, with the rows they
\* reference.
InitStores ==
    /\ sake_types = SakeTypeIds
    /\ breweries = BreweryIds
    /\ drink_styles = DrinkStyleIds
    /\ \E ids \in SUBSET SakeIds :
          /\ sakes = {SakeRow(id) : id \in ids}
          /\ sake_drink_styles = {sd \in ids \X DrinkStyleIds : sd[2] \in DrinkStylesOf(sd[1])}
    /\ pc = "idle"
    /\ caller = "none"
    /\ params = NoParams
    /\ input = NoInput
    /\ execCalls = 0
    /\ filter = NoInput
    /\ total = 0
    /\ sakeRows = << >>
    /\ idx = 0
    /\ acc = << >>
    /\ queries = << >>
    /\ listResult = NoListResult
    /\ execResult = NoExecResult
    /\ handled = NoError
    /\ response = NoResponse
    /\ scan = NoScan
    /\ ctx = "live"
    /\ globalLogger = LoggerInit
    /\ handlers = [h \in OtherHandlers |-> "idle"]
    /\ Serving

\* Calls of Execute by a client paging through the list with every filter,
\* page after page, over a store no other client writes.
NextScan ==
    \/ \E in \in [TypeID : Opt(SakeTypeIds), BreweryID : Opt(BreweryIds),
                  Offset : MinOffset..(MaxOffsetProbe + 1),
                  Limit : {MinLimit, MinLimit + 1, MaxLimit}] : Execute(in)
    \/ QueriesCountSakes
    \/ QueriesListSakes
    \/ QueriesGetSakeType
    \/ QueriesGetBrewery
    \/ QueriesGetDrinkStylesBySakeID
    \/ ListReturn
    \/ NextRequest
    \/ ScanCollect

SpecScan == InitStores /\ [][NextScan]_vars

\* The process when main starts, over a store holding every row of the
\* universe, in one of the given environments.
Booting(environs) ==
    /\ sake_types = SakeTypeIds
    /\ breweries = BreweryIds
    /\ drink_styles = DrinkStyleIds
    /\ sakes = {SakeRow(id) : id \in SakeIds}
    /\ sake_drink_styles = {sd \in SakeIds \X DrinkStyleIds : sd[2] \in DrinkStylesOf(sd[1])}
    /\ pc = "idle"
    /\ caller = "none"
    /\ params = NoParams
    /\ input = NoInput
    /\ execCalls = 0
    /\ filter = NoInput
    /\ total = 0
    /\ sakeRows = << >>
    /\ idx = 0
    /\ acc = << >>
    /\ queries = << >>
    /\ listResult = NoListResult
    /\ execResult = NoExecResult
    /\ handled = NoError
    /\ response = NoResponse
    /\ scan = NoScan
    /\ ctx = "live"
    /\ globalLogger = "nil"
    /\ handlers = [h \in OtherHandlers |-> "idle"]
    /\ environ \in environs
    /\ config = [returned |-> FALSE, err |-> NoError, cfg |-> {}]
    /\ main = "load"
    /\ start = "none"
    /\ httpServer = "nil"
    /\ postgresPool = "nil"
    /\ valkeyClient = "nil"
    /\ cacheOps = << >>
    /\ health = NoHealth
    /\ shutdown = NoShutdown

\* config.Load in every environment.
SpecConfig == Booting(Environs) /\ [][MainLoad]_vars

\* A handler that has started runs on while the process does.
ServeStep ==
    /\ Alive
    /\ \/ QueriesCountSakes
       \/ QueriesListSakes
       \/ QueriesGetSakeType
       \/ QueriesGetBrewery
       \/ QueriesGetDrinkStylesBySakeID
       \/ ListReturn
       \/ NextRequest

\* main from its first statement to its last, the goroutine running Start,
\* and the requests served in between: GET /sakes without parameters and
\* with an invalid type_id, accepted while the http.Server listens.
NextServer ==
    \/ MainLoad
    \/ MainLoggerInit
    \/ MainPostgres
    \/ MainValkey
    \/ MainGo
    \/ MainNotify
    \/ Signal
    \/ StartAssign
    \/ StartListenAndServe
    \/ HandleHealth
    \/ /\ Alive
       /\ httpServer = "listening"
       /\ \E p \in {NoParams, [NoParams EXCEPT !.TypeId = {MinId - 1}]} : ListSakes(p)
    \/ ServeStep
    \/ ShutdownHTTP
    \/ ShutdownPostgres
    \/ ShutdownValkey

\* The server is started with nothing set in the environment, and with a
\* port that is no number.
SpecServer ==
    /\ Booting({DefaultEnviron, [DefaultEnviron EXCEPT !.env["SERVER_PORT"] = {"invalid_port"}]})
    /\ [][NextServer]_vars

\* ------------------------------------------------------------------- claims
\* The fields of a request that are present and violate their rule.
ViolatingFields(p) ==
    {f \in {"offset", "limit", "type_id", "brewery_id"} :
        \/ f = "offset" /\ \E v \in p.Offset : v < 0
        \/ f = "limit" /\ \E v \in p.Limit : v < 1 \/ v > 100
        \/ f = "type_id" /\ \E v \in p.TypeId : v < 1
        \/ f = "brewery_id" /\ \E v \in p.BreweryId : v < 1}

IsNotFound(e) == e.kind = "AppError" /\ e.Code = "NOT_FOUND" /\ e.Status = 404

IsDatabaseError(e) == e.kind = "AppError" /\ e.Code = "DATABASE_ERROR" /\ e.Status = 500

HydrationQueries == {"GetSakeType", "GetBrewery", "GetDrinkStylesBySakeID"}

\* C1: a GET /sakes request with at least one present parameter violating its
\* rule is answered 400 with code VALIDATION_ERROR, and Execute is never
\* called for it (nor any store call made).
C1_InvalidRequestRejected ==
    (caller = "http" /\ ViolatingFields(params) # {}) =>
        /\ pc = "done"
        /\ response.status = 400
        /\ ~response.errorsNull
        /\ Len(response.errors) > 0
        /\ \A i \in DOMAIN response.errors : response.errors[i].Code = "VALIDATION_ERROR"
        /\ execCalls = 0
        /\ ~execResult.returned
        /\ queries = << >>

C1_Witness ==
    /\ caller = "http"
    /\ pc = "done"
    /\ params.Offset = {0}
    /\ params.Limit = {101}
    /\ response.status = 400
    /\ execCalls = 0

\* C2: validation accumulates: the fields of the ValidationError, and the
\* entries of the 400 response (one per field, message prefixed with the field
\* name), are exactly the parameters that are present and violate their rule;
\* absent parameters and boundary values produce no entry.
C2_FieldsExactlyViolating ==
    (caller = "http" /\ pc = "done") =>
        LET bad == ViolatingFields(params)
        IN  IF bad = {}
            THEN handled.kind # "ValidationError" /\ response.status # 400
            ELSE /\ handled.kind = "ValidationError"
                 /\ {f[1] : f \in handled.Fields} = bad
                 /\ Cardinality(handled.Fields) = Cardinality(bad)
                 /\ response.status = 400
                 /\ Len(response.errors) = Cardinality(bad)
                 /\ {response.errors[i].Message[1] : i \in DOMAIN response.errors} = bad

C2_Witness ==
    /\ caller = "http"
    /\ pc = "done"
    /\ params = [Offset |-> {-1}, Limit |-> {101}, TypeId |-> {1}, BreweryId |-> {}]
    /\ Len(response.errors) = 2
    /\ response.errors[1].Message[1] = "limit"

\* C3: Execute hands the repository Offset 0 for an offset below 0 and the
\* input offset otherwise; an error it returns is the repository's, caused by
\* a failed store call, never by the clamp.
C3_OffsetClamp ==
    execCalls > 0 =>
        /\ filter.Offset = (IF input.Offset < 0 THEN 0 ELSE input.Offset)
        /\ execResult.returned =>
              /\ execResult.err = listResult.err
              /\ execResult.err # NoError => queries[Len(queries)].err # NoError

C3_Witness ==
    /\ caller = "direct"
    /\ input.Offset = -1
    /\ filter.Offset = 0
    /\ execResult.returned
    /\ execResult.err = NoError

\* C4: Execute hands the repository Limit 20 for a limit below 1 or above
\* 100 and the input limit otherwise; an error it returns is the
\* repository's, caused by a failed store call, never by the clamp.
C4_LimitClamp ==
    execCalls > 0 =>
        /\ filter.Limit = (IF input.Limit < 1 \/ input.Limit > 100 THEN 20 ELSE input.Limit)
        /\ execResult.returned =>
              /\ listResult.returned
              /\ execResult.err = listResult.err
              /\ execResult.err # NoError => queries[Len(queries)].err # NoError

C4_Witness ==
    /\ caller = "direct"
    /\ input.Limit = 101
    /\ filter.Limit = 20
    /\ execResult.returned
    /\ execResult.err = NoError

\* C5: a GET /sakes request that passes validation calls Execute exactly once,
\* with Offset the given offset or 0, Limit the given limit or 20, and
\* TypeID / BreweryID as given (absent stays absent).
C5_ValidRequestForwarded ==
    (caller = "http" /\ ViolatingFields(params) = {}) =>
        /\ execCalls = 1
        /\ input.TypeID = params.TypeId
        /\ input.BreweryID = params.BreweryId
        /\ IF params.Offset = {} THEN input.Offset = 0 ELSE params.Offset = {input.Offset}
        /\ IF params.Limit = {} THEN input.Limit = 20 ELSE params.Limit = {input.Limit}

C5_Witness ==
    /\ caller = "http"
    /\ pc = "done"
    /\ params = [Offset |-> {}, Limit |-> {}, TypeId |-> {1}, BreweryId |-> {1}]
    /\ input.Limit = 20
    /\ response.status = 200
    /\ Len(response.data) > 0

\* Some nested lookup of the current request returned an error.
HydrationFailed ==
    \E i \in DOMAIN queries : queries[i].q \in HydrationQueries /\ queries[i].err # NoError

\* C6: when the hydration of a row fails, List returns an error with no sakes
\* and a zero Pagination, never a page without the bad row or with only the
\* rows hydrated before it.
C6_NoPartialPage ==
    HydrationFailed =>
        /\ listResult.returned
        /\ listResult.err # NoError
        /\ listResult.sakes = [isNil |-> TRUE, elems |-> << >>]
        /\ listResult.pagination = [Total |-> 0, Offset |-> 0, Limit |-> 0]
        /\ execResult.outputNil
        /\ caller = "http" => response.dataNull /\ response.status # 200

C6_Witness ==
    /\ HydrationFailed
    /\ listResult.returned
    /\ Len(acc) = 1
    /\ idx = 2

\* The i-th store call was a nested lookup that found no row for its key.
FoundNoRow(i) ==
    \/ queries[i].q \in {"GetSakeType", "GetBrewery"} /\ queries[i].err = ErrNoRows
    \/ queries[i].q = "GetDrinkStylesBySakeID" /\ queries[i].err = NoError /\ queries[i].n = 0

C8_StoreFailureWrapped ==
    listResult.returned =>
        \A i \in DOMAIN queries :
            (queries[i].err # NoError /\ queries[i].err # ErrNoRows) =>
                /\ IsDatabaseError(listResult.err)
                /\ listResult.err.Err = queries[i].err
                /\ listResult.sakes.isNil

C8_Witness ==
    /\ listResult.returned
    /\ Len(queries) = 4
    /\ queries[4].q = "GetBrewery"
    /\ queries[4].err = [kind |-> "plain", text |-> "connection refused"]
    /\ IsDatabaseError(listResult.err)

\* C9: every response of GET /sakes over handler, use case and repository
\* adapter has status 200, 400 or 500.
C9_StatusOneOfThree ==
    (caller = "http" /\ pc = "done") => response.status \in {200, 400, 500}

\* The first *AppError an error is or directly wraps, NoError when none.
AppErrorOf(e) ==
    IF e.kind = "AppError" THEN e
    ELSE IF e.kind = "wrap" /\ e.Err.kind = "AppError" THEN e.Err
    ELSE NoError

\* C10: handleError maps by kind: ValidationError -> 400 / VALIDATION_ERROR,
\* NotFoundError -> 404 / NOT_FOUND, DatabaseError -> 500 / DATABASE_ERROR,
\* an error that neither is a ValidationError nor is or wraps an AppError
\* -> 500 / INTERNAL_ERROR; every emitted code is one of the nine codes.
C10_HandleErrorMapping ==
    (pc = "done" /\ handled # NoError) =>
        /\ ~response.errorsNull
        /\ response.dataNull
        /\ \A i \in DOMAIN response.errors :
              response.errors[i].Code \in
                  {"BAD_REQUEST", "NOT_FOUND", "UNAUTHORIZED", "FORBIDDEN", "CONFLICT",
                   "INTERNAL_ERROR", "DATABASE_ERROR", "VALIDATION_ERROR", "GROUP_ACCESS_DENIED"}
        /\ IF handled.kind = "ValidationError"
           THEN /\ response.status = 400
                /\ Len(response.errors) = Cardinality(handled.Fields)
                /\ \A i \in DOMAIN response.errors :
                      response.errors[i].Code = "VALIDATION_ERROR"
           ELSE IF AppErrorOf(handled) # NoError
           THEN /\ Len(response.errors) = 1
                /\ response.errors[1].Code = AppErrorOf(handled).Code
                /\ response.status = AppErrorOf(handled).Status
                /\ response.errors[1].Code = "NOT_FOUND" => response.status = 404
                /\ response.errors[1].Code = "DATABASE_ERROR" => response.status = 500
           ELSE /\ Len(response.errors) = 1
                /\ response.errors[1].Code = "INTERNAL_ERROR"
                /\ response.status = 500

C10_Witness ==
    /\ caller = "handleError"
    /\ pc = "done"
    /\ handled = [kind |-> "wrap",
                  Err |-> [kind |-> "AppError", Code |-> "NOT_FOUND", Message |-> "m",
                           Status |-> 404, Err |-> NoError]]
    /\ response.status = 404
    /\ response.errors[1].Code = "NOT_FOUND"

\* The texts of the underlying causes of an error: the text of the error
\* itself when it is no AppError, and of every error below it in its chain.
RECURSIVE CauseTexts(_)
CauseTexts(e) ==
    IF e.kind = "nil" THEN {}
    ELSE IF e.kind = "plain" THEN {e.text}
    ELSE IF e.kind = "wrap" THEN CauseTexts(e.Err)
    ELSE IF e.kind = "AppError" THEN CauseTexts(e.Err)
    ELSE CauseTexts(e.AppError.Err)

\* The pieces of text of the messages of the current response.
ResponseTexts ==
    UNION {{response.errors[i].Message[k] : k \in DOMAIN response.errors[i].Message}
              : i \in DOMAIN response.errors}

\* C11: no error response contains the text of an underlying cause: for a
\* DatabaseError the message is the AppError's Message only, never the wrapped
\* Err; for an unclassified error it is the fixed generic internal-error
\* message, never the original error's text.
C11_NoCauseInResponse ==
    (pc = "done" /\ handled # NoError) =>
        /\ ResponseTexts \cap CauseTexts(handled) = {}
        /\ IsDatabaseError(AppErrorOf(handled)) =>
              /\ Len(response.errors) = 1
              /\ response.errors[1].Message = <<AppErrorOf(handled).Message>>
        /\ (handled.kind # "ValidationError" /\ AppErrorOf(handled) = NoError) =>
              /\ Len(response.errors) = 1
              /\ response.errors[1].Message = <<"internal error occurred">>

C11_Witness ==
    /\ caller = "http"
    /\ pc = "done"
    /\ IsDatabaseError(handled)
    /\ handled.Err = [kind |-> "plain", text |-> "connection refused"]
    /\ response.status = 500
    /\ response.errors[1].Message = <<"failed to list sakes">>

\* C12: for every successful List call, Pagination.Total, and meta.total of
\* the response built from it, is the result of the count query of that call,
\* whatever the number of rows of the returned page.
C12_TotalIsCountResult ==
    (listResult.returned /\ listResult.err = NoError) =>
        /\ queries[1].q = "CountSakes"
        /\ queries[1].err = NoError
        /\ listResult.pagination.Total = total
        /\ execResult.output.Pagination.Total = total
        /\ caller = "http" => (response.status = 200 /\ response.meta.Total = total)

C12_Witness ==
    /\ caller = "http"
    /\ listResult.returned
    /\ listResult.err = NoError
    /\ total = 2
    /\ Len(listResult.sakes.elems) = 1
    /\ response.meta.Total = 2
    /\ Len(response.data) = 1

\* The sake rows a filter asks for: an unset filter puts no condition on its
\* column.
Expected(f) ==
    {r \in sakes : /\ (f.TypeID = {} \/ \E t \in f.TypeID : r.type_id = t)
                   /\ (f.BreweryID = {} \/ \E b \in f.BreweryID : r.brewery_id = b)}

\* C13: over a store nobody writes, whatever its content and the filter, the
\* count query counts exactly the rows the filter asks for, and the page query
\* returns rows of that same set, each at most once, as many as offset and
\* limit leave of it; an unset filter puts no condition on its column.
C13_SamePredicate ==
    /\ (Len(queries) >= 1 /\ queries[1].err = NoError) =>
          total = Cardinality(Expected(filter))
    /\ (Len(queries) >= 2 /\ queries[2].err = NoError) =>
          LET left == Cardinality(Expected(filter)) - filter.Offset
          IN  /\ \A i \in DOMAIN sakeRows : sakeRows[i] \in Expected(filter)
              /\ \A i, j \in DOMAIN sakeRows : i # j => sakeRows[i] # sakeRows[j]
              /\ Len(sakeRows) = (IF left < 0 THEN 0 ELSE Min(filter.Limit, left))

C13_Witness ==
    /\ pc = "done"
    /\ listResult.err = NoError
    /\ filter.TypeID = {}
    /\ filter.BreweryID = {2}
    /\ filter.Offset = 0
    /\ Cardinality(sakes) = 2
    /\ total = 1
    /\ Len(sakeRows) = 1
    /\ sakeRows[1].brewery_id = 2

\* The pages kept so far reach past the last matching row.
ScanCovered ==
    /\ scan.Limit > 0
    /\ Len(scan.pages) * scan.Limit >= Cardinality(Expected(scan))

\* The places <<page, index>> of the kept pages that hold the sake id.
ScanPlaces(id) ==
    UNION {{<<k, i>> : i \in {j \in DOMAIN scan.pages[k] : scan.pages[k][j] = id}}
              : k \in DOMAIN scan.pages}

\* C14: with no concurrent writes, the pages of separate List calls at
\* offsets 0, L, 2L, ... together contain every matching sake row exactly
\* once, rows with identical created_at included.
C14_PagesPartitionRows ==
    ScanCovered => \A r \in Expected(scan) : Cardinality(ScanPlaces(r.id)) = 1

\* C15: when the repository's List returns an error e, Execute returns a nil
\* output and the very same error value e, neither wrapped nor reclassified.
C15_ErrorPassedThrough ==
    (listResult.returned /\ listResult.err # NoError) =>
        /\ execResult.returned
        /\ execResult.outputNil
        /\ execResult.err = listResult.err
        /\ execResult.err.kind = "AppError"
        /\ caller = "http" => handled = listResult.err

C15_Witness ==
    /\ caller = "direct"
    /\ listResult.returned
    /\ IsNotFound(listResult.err)
    /\ execResult.returned
    /\ execResult.outputNil
    /\ IsNotFound(execResult.err)

\* C16: the count query and the page query of one List call are two separate
\* reads of the store with no transaction around them: a write of another
\* client between the two is not held back and leaves the count already read
\* as it is, and the page query reads the store as it is by then; List then
\* goes on with that count as Total, whatever the page query saw.
C16_SeparateReads ==
    [][/\ (pc \in {"page", "return"} /\ sakes' # sakes) => (pc' = pc /\ total' = total)
       /\ (pc = "page" /\ pc' # "page" /\ queries'[Len(queries')].err = NoError) =>
             LET left == Cardinality(Expected(filter)) - filter.Offset
             IN  /\ total' = total
                 /\ \A i \in DOMAIN sakeRows' : sakeRows'[i] \in Expected(filter)
                 /\ Len(sakeRows') = (IF left < 0 THEN 0 ELSE Min(filter.Limit, left))
       /\ (pc = "return" /\ pc' = "done") =>
             /\ listResult'.err = NoError
             /\ listResult'.pagination.Total = total]_vars

\* List has returned a page that holds every matching row the page query saw
\* (offset 0, fewer rows than the limit), with another number as Total.
C16_Witness ==
    /\ listResult.returned
    /\ listResult.err = NoError
    /\ filter.Offset = 0
    /\ Len(sakeRows) < filter.Limit
    /\ Len(listResult.sakes.elems) = 2
    /\ listResult.pagination.Total = 1

\* C17 as stated: once the request is cancelled or timed out during a List
\* call, the call ends with an error instead of a result.
C17_Original ==
    (listResult.returned /\ ctx # "live") => listResult.err # NoError

\* C17 amended: the context reaches every store call as the request holds it
\* (done once, it stays done for the rest of the request), and a store call
\* made once it is done (the count, the page or a nested lookup) runs no
\* query: it fails with the context's error, and List ends there with a
\* DatabaseError wrapping that error, with no page.
C17_DoneContextFailsStoreCalls ==
    [][/\ (ctx # "live" /\ pc' # "idle") => ctx' = ctx
       /\ (ctx # "live" /\ queries' # queries /\ pc' # "idle") =>
             /\ queries' = Append(queries, queries'[Len(queries')])
             /\ queries'[Len(queries')].err = CtxErr(ctx)
             /\ queries'[Len(queries')].n = 0
             /\ pc' = "done"
             /\ listResult'.returned
             /\ IsDatabaseError(listResult'.err)
             /\ listResult'.err.Err = CtxErr(ctx)
             /\ listResult'.sakes.isNil
             /\ execResult'.outputNil]_vars

C17_Witness ==
    /\ ctx = "canceled"
    /\ listResult.returned
    /\ Len(queries) = 5
    /\ queries[4].err = NoError
    /\ queries[5].q = "GetDrinkStylesBySakeID"
    /\ queries[5].err = [kind |-> "plain", text |-> "context canceled"]
    /\ IsDatabaseError(listResult.err)

\* r is the rendering of sake with every field kept.
SakePreserved(sake, r) ==
    /\ r.Id = sake.ID
    /\ r.Type.Id = sake.Type.ID
    /\ r.Type.Name = sake.Type.Name
    /\ r.Brewery.Id = sake.Brewery.ID
    /\ r.Brewery.Name = sake.Brewery.Name
    /\ r.Brewery.OriginCountry = sake.Brewery.OriginCountry
    /\ r.Brewery.OriginRegion = sake.Brewery.OriginRegion
    /\ r.Brewery.Latitude = sake.Brewery.Latitude
    /\ r.Brewery.Longitude = sake.Brewery.Longitude
    /\ r.Name = sake.Name
    /\ r.Abv = sake.ABV
    /\ r.TasteNotes = sake.TasteNotes
    /\ r.Memo = sake.Memo
    /\ r.CreatedAt = sake.CreatedAt
    /\ r.UpdatedAt = sake.UpdatedAt
    /\ Len(r.DrinkStyles) = Len(sake.DrinkStyles)
    /\ \A k \in DOMAIN sake.DrinkStyles :
          /\ r.DrinkStyles[k].Id = sake.DrinkStyles[k].ID
          /\ r.DrinkStyles[k].Name = sake.DrinkStyles[k].Name
          /\ r.DrinkStyles[k].Description = sake.DrinkStyles[k].Description

\* C18: toSakeResponse preserves a Sake: id, type (id, name), brewery (id,
\* name, origin country, optional origin region, optional lat/lon), name, abv,
\* taste notes, memo (absent stays absent, present keeps its value),
\* timestamps, and the drink styles, same length, same order, each with its
\* id, name and optional description.
C18_SakePreserved ==
    (pc = "done" /\ response.status = 200) =>
        \A i \in DOMAIN response.data :
            /\ i \in DOMAIN execResult.output.Sakes.elems
            /\ SakePreserved(execResult.output.Sakes.elems[i], response.data[i])

C18_Witness ==
    /\ caller = "toListSakesResponse"
    /\ pc = "done"
    /\ Len(response.data) = 1
    /\ response.data[1].Memo = {<<"memo", "note">>}
    /\ response.data[1].Brewery.Latitude = {35}
    /\ response.data[1].Brewery.OriginRegion = {}
    /\ Len(response.data[1].DrinkStyles) = 2
    /\ response.data[1].DrinkStyles[1].Id = 2
    /\ response.data[1].DrinkStyles[2].Description = {}

\* C19: for every successful use-case output the response is 200 with
\* errors null, data an array (empty, not null, when the output has no sakes,
\* its slice being nil or not) with one item per output sake in the same
\* order, and meta the total, offset and limit of the output's Pagination.
C19_SuccessEnvelope ==
    (pc = "done" /\ caller \in {"http", "toListSakesResponse"}
        /\ execResult.returned /\ execResult.err = NoError) =>
        /\ response.status = 200
        /\ response.errorsNull
        /\ ~response.dataNull
        /\ Len(response.data) = Len(execResult.output.Sakes.elems)
        /\ \A i \in DOMAIN response.data :
              response.data[i].Id = execResult.output.Sakes.elems[i].ID
        /\ ~response.metaNull
        /\ response.meta.Total = execResult.output.Pagination.Total
        /\ response.meta.Offset = execResult.output.Pagination.Offset
        /\ response.meta.Limit = execResult.output.Pagination.Limit

C19_Witness ==
    /\ caller = "toListSakesResponse"
    /\ pc = "done"
    /\ execResult.output.Sakes.isNil
    /\ execResult.output.Pagination.Total = 100
    /\ response.status = 200
    /\ ~response.dataNull
    /\ Len(response.data) = 0
    /\ response.meta.Total = 100

\* The responses GET /sakes with parameters p can get over the store as it
\* is, from a handler that runs alone from its first step to its last.
ResponsesAlone(p) ==
    LET verr == validateListSakesParams(p)
        f == ExecuteFilter(HandlerInput(p))
        pages == ListSakesQuery(f)
        lookups == IF \E rows \in pages : Len(rows) > 0
                   THEN {"failed to get sake type", "failed to get brewery",
                         "failed to get drink styles"}
                   ELSE {}
        failures == {DatabaseError(m, e) :
                        m \in {"failed to count sakes", "failed to list sakes"} \cup lookups,
                        e \in StoreFaults}
        Page(rows) ==
            [Sakes |-> Slice([i \in DOMAIN rows |->
                                 SakeEntity(rows[i], GetDrinkStylesBySakeIDQuery(rows[i].id))]),
             Pagination |-> [Total |-> CountSakesQuery(f), Offset |-> f.Offset,
                             Limit |-> f.Limit]]
    IN  IF verr # NoError THEN handleError(verr)
        ELSE {toListSakesResponse(Page(rows)) : rows \in pages}
             \cup UNION {handleError(e) : e \in failures}

C21_HealthChecksIndependent ==
    [][health'.n # health.n =>
         /\ health'.Postgres = (IF health'.req.postgres THEN "ok" ELSE "error")
         /\ health'.Valkey = (IF health'.req.valkey THEN "ok" ELSE "error")
         /\ cacheOps' = Append(cacheOps, HealthPing)
         /\ IF ~health'.req.postgres \/ ~health'.req.valkey
            THEN health'.Status = "degraded" /\ health'.code = StatusServiceUnavailable
            ELSE health'.Status = "ok" /\ health'.code = StatusOK]_vars

C21_Witness ==
    /\ health.n > 0
    /\ ~health.req.postgres
    /\ health.req.valkey
    /\ health.Postgres = "error"
    /\ health.Valkey = "ok"
    /\ health.Status = "degraded"
    /\ health.code = StatusServiceUnavailable
    /\ cacheOps[Len(cacheOps)] = HealthPing

\* The value the precedence environment > file > default gives a key, the
\* file counting when ENV is "local", empty or not set; emptyIsSet tells
\* whether an environment variable set to the empty string counts as set.
ByPrecedence(e, k, emptyIsSet) ==
    LET fromEnv == {v \in e.env[EnvKey(k)] : emptyIsSet \/ v # ""}
        fileRead == e.env["ENV"] \subseteq {"", "local"}
        fromFile == IF fileRead /\ e.file # {} THEN TheOne(e.file)[k] ELSE {}
    IN  IF fromEnv # {} THEN TheOne(fromEnv)
        ELSE IF fromFile # {} THEN TheOne(fromFile)
        ELSE Default(k)

\* C22 as stated: every key takes the value of its environment variable when
\* the variable is set, whatever it is set to.
C22_Original ==
    (config.returned /\ config.err = NoError) =>
        \A k \in ConfigKeys :
            {TheOne(config.cfg)[k]} = Decode(k, ByPrecedence(environ, k, TRUE))

\* C22: config.Load resolves every key by precedence environment variable
\* set to a non-empty value > value in config/config.yaml (read when ENV is
\* "local", empty or not set) > default; an environment variable set to the
\* empty string counts as not set. Load fails exactly when a value so
\* resolved does not fit its field, so a missing file is no error.
C22_LoadPrecedence ==
    config.returned =>
        IF \A k \in ConfigKeys : Decode(k, ByPrecedence(environ, k, FALSE)) # {}
        THEN /\ config.err = NoError
             /\ \A k \in ConfigKeys :
                   {TheOne(config.cfg)[k]} = Decode(k, ByPrecedence(environ, k, FALSE))
        ELSE config.err # NoError /\ config.cfg = {}

C22_Witness ==
    /\ config.returned
    /\ config.err = NoError
    /\ environ.env["ENV"] = {"local"}
    /\ environ.env["SERVER_PORT"] = {"9000"}
    /\ environ.env["SERVER_MODE"] = {""}
    /\ environ.env["DATABASE_HOST"] = {}
    /\ environ.file # {}
    /\ TheOne(environ.file)["server.port"] = {"9999"}
    /\ TheOne(environ.file)["server.mode"] = {"test"}
    /\ TheOne(environ.file)["database.host"] = {}
    /\ TheOne(config.cfg)["server.port"] = 9000
    /\ TheOne(config.cfg)["server.mode"] = "test"
    /\ TheOne(config.cfg)["database.host"] = "localhost"

\* C23: for every GET /sakes request that passes validation, the offset and
\* the limit the handler passes to Execute satisfy offset >= 0 and
\* 1 <= limit <= 100, so Execute's clamp changes neither and the filter the
\* repository receives carries the handler's offset and limit.
C23_ClampUnreachable ==
    (caller = "http" /\ execCalls > 0) =>
        /\ input.Offset >= MinOffset
        /\ input.Limit >= MinLimit
        /\ input.Limit <= MaxLimit
        /\ filter.Offset = input.Offset
        /\ filter.Limit = input.Limit

C23_Witness ==
    /\ caller = "http"
    /\ pc = "done"
    /\ execCalls = 1
    /\ params.Offset = {MaxOffsetProbe}
    /\ params.Limit = {MaxLimit}
    /\ filter.Offset = MaxOffsetProbe
    /\ filter.Limit = MaxLimit
    /\ listResult.returned
    /\ listResult.pagination.Limit = MaxLimit

\* C24: in every successful List result, every sake's brewery has neither
\* Latitude nor Longitude, whether the brewery's row stores a position or
\* NULL.
C24_CoordinatesAbsent ==
    (listResult.returned /\ listResult.err = NoError) =>
        \A i \in DOMAIN listResult.sakes.elems :
            /\ listResult.sakes.elems[i].Brewery.Latitude = {}
            /\ listResult.sakes.elems[i].Brewery.Longitude = {}

C24_Witness ==
    /\ listResult.returned
    /\ listResult.err = NoError
    /\ \E i, j \in DOMAIN listResult.sakes.elems :
          /\ BreweryRow(listResult.sakes.elems[i].Brewery.ID).position # {}
          /\ BreweryRow(listResult.sakes.elems[j].Brewery.ID).position = {}
          /\ listResult.sakes.elems[i].Brewery.Latitude = {}
          /\ listResult.sakes.elems[j].Brewery.Longitude = {}

\* The query and the id the i-th store call of a List call is expected to
\* be, i > 2: the lookups of the rows of the page, three a row, in page
\* order.
LookupAt(i) ==
    LET row == sakeRows[((i - 3) \div 3) + 1]
        step == (i - 3) % 3
    IN  IF step = 0 THEN [q |-> "GetSakeType", arg |-> row.type_id]
        ELSE IF step = 1 THEN [q |-> "GetBrewery", arg |-> row.brewery_id]
        ELSE [q |-> "GetDrinkStylesBySakeID", arg |-> row.id]

\* C25: the store calls of a List call are, in order, the count, the page,
\* then for each row of the page in page order the SakeType lookup, the
\* Brewery lookup and the DrinkStyle lookup, each made once; only the last
\* call made can have failed, and a call that succeeds over a page of n rows
\* has made exactly 2 + 3n calls.
C25_QueryOrder ==
    /\ \A i \in DOMAIN queries :
          /\ i = 1 => queries[i].q = "CountSakes"
          /\ i = 2 => queries[i].q = "ListSakes"
          /\ i > 2 => /\ (i - 3) \div 3 < Len(sakeRows)
                      /\ queries[i].q = LookupAt(i).q
                      /\ queries[i].arg = LookupAt(i).arg
          /\ i < Len(queries) => queries[i].err = NoError
    /\ (listResult.returned /\ listResult.err = NoError) =>
          /\ Len(listResult.sakes.elems) = Len(sakeRows)
          /\ Len(queries) = 2 + 3 * Len(listResult.sakes.elems)
          /\ queries[Len(queries)].err = NoError
    /\ (listResult.returned /\ listResult.err # NoError) =>
          queries[Len(queries)].err # NoError

C25_Witness ==
    /\ listResult.returned
    /\ listResult.err = NoError
    /\ Len(listResult.sakes.elems) = 2
    /\ Len(queries) = 8
    /\ queries[6].q = "GetSakeType"
    /\ queries[6].arg = sakeRows[2].type_id
    /\ sakeRows[1].type_id # sakeRows[2].type_id

\* C26: the offset and the limit of the Pagination a successful Execute
\* returns, and of meta in the response, are those of the filter the page
\* query ran with, which are the values after the clamp: Execute called with
\* offset -1 and limit 101 returns Pagination.Offset = 0 and
\* Pagination.Limit = 20.
C26_EchoesEffectiveValues ==
    (execResult.returned /\ execResult.err = NoError /\ caller \in {"http", "direct"}) =>
        /\ execResult.output.Pagination.Offset = filter.Offset
        /\ execResult.output.Pagination.Limit = filter.Limit
        /\ execResult.output.Pagination.Offset =
              (IF input.Offset < MinOffset THEN MinOffset ELSE input.Offset)
        /\ execResult.output.Pagination.Limit =
              (IF input.Limit < MinLimit \/ input.Limit > MaxLimit
               THEN DefaultLimit ELSE input.Limit)
        /\ (input.Offset = MinOffset - 1 /\ input.Limit = MaxLimit + 1) =>
              /\ execResult.output.Pagination.Offset = DefaultOffset
              /\ execResult.output.Pagination.Limit = DefaultLimit
        /\ caller = "http" =>
              /\ response.meta.Offset = filter.Offset
              /\ response.meta.Limit = filter.Limit

C26_Witness ==
    /\ caller = "direct"
    /\ input.Offset = MinOffset - 1
    /\ input.Limit = MaxLimit + 1
    /\ execResult.returned
    /\ execResult.err = NoError
    /\ execResult.output.Pagination.Offset = DefaultOffset
    /\ execResult.output.Pagination.Limit = DefaultLimit
    /\ queries[2].q = "ListSakes"
    /\ queries[2].n = Cardinality(sakes)

\* The rows of the store the filter of the current call selects.
Selected ==
    {r \in sakes : /\ \A t \in filter.TypeID : r.type_id = t
                   /\ \A b \in filter.BreweryID : r.brewery_id = b}

\* Row r can stand at position p of the selected rows sorted by created_at
\* descending: fewer than p rows are newer, and at least p are as new.
CanStandAt(r, p) ==
    /\ Cardinality({o \in Selected : o.created_at > r.created_at}) < p
    /\ Cardinality({o \in Selected : o.created_at >= r.created_at}) >= p

C28_ReadOnlyAndNoCache ==
    [][/\ request' # request => (store' = store /\ cacheOps' = cacheOps)
       /\ cacheOps' # cacheOps =>
             \/ main = "valkey" /\ main' # main /\ cacheOps' = Append(cacheOps, StartupPing)
             \/ health'.n # health.n /\ cacheOps' = Append(cacheOps, HealthPing)]_vars

C28_Witness ==
    /\ caller = "http"
    /\ pc = "done"
    /\ response.status = StatusOK
    /\ Len(response.data) = Cardinality(sakes)
    /\ Len(queries) = 2 + 3 * Cardinality(sakes)
    /\ health.n > 0
    /\ cacheOps = <<StartupPing, HealthPing>>
    /\ sakes = {SakeRow(id) : id \in SakeIds}

\* C29: Shutdown releases the HTTP server, then the store pool, then the
\* cache client, and once it has returned, with or without an error, the
\* pool and the client are both closed.
C29_ShutdownReleasesAll ==
    /\ \E n \in 0..3 :
          shutdown.released = SubSeq(<<"httpServer", "postgresPool", "valkeyClient">>, 1, n)
    /\ shutdown.returned => (postgresPool = "closed" /\ valkeyClient = "closed")

\* C30: whenever the main goroutine is in Shutdown, about to call
\* s.httpServer.Shutdown, Start has assigned s.httpServer, and the call never
\* dereferences nil.
C30_ShutdownSeesHttpServer ==
    /\ main = "shutdown" => httpServer # "nil"
    /\ main # "panic"

====
